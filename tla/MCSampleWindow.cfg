SPECIFICATION MCSpec
CONSTANTS
    WindowType = {"Instantaneous", "Sliding", "RollingCount", "Tumbling",
                  "FixedInterval"}
    Intervals = {0, 2}
    Capacity = 3
    Values = {1, 2}
    NaN = NaN
    Percentiles = {0, 280, 500, 560, 670, 950, 999, 1000}
    RoundedUp <- RoundedUpTo25
    LongWindow = 25
    MaxTime = 4
    MaxSeq = 4
INVARIANTS ArrivalOrder WindowExact QuantileWithinOneRank
