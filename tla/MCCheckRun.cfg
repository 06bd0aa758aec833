\* Two engines with state files of their own on one daemon.
CONSTANTS
    a = a  b = b  u1 = u1  u2 = u2  c1 = c1  c2 = c2  c3 = c3
    Engines = {a, b}
    Units = {u1, u2}
    Of <- MCOf
    Label <- MCOwn
    Cids = {c1, c2, c3}
    NoCid = NoCid
    MaxFaults = 1
    MaxKills = 1
SPECIFICATION FairSpec
INVARIANTS UsedIsThere NoStrayRunning
PROPERTIES PassIsReal UnitEnds
