---------------------------- MODULE MCPowerMgr ------------------------------
EXTENDS PowerMgr

At(year, mon, mday, hour) ==
  [sec |-> 0, min |-> 0, hour |-> hour, mday |-> mday, mon |-> mon, year |-> year - 1900]

\* The chip after a loss of power, and a turn of the year.
MCMoments ==
  <<At(2000, 0, 1, 0), At(2000, 0, 1, 3),
    At(2029, 11, 31, 21), At(2030, 0, 1, 0), At(2030, 0, 1, 3)>>
=============================================================================
