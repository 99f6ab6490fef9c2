\* Three threads on a ticket lock whose counters take four values, so that
\* they wrap many times.  No symmetry, because of the liveness property.
SPECIFICATION FairSpec
CONSTANTS
    Threads = {t1, t2, t3}
    TicketMod = 4
    MaxStale = 3
PROPERTY NoStarvation
