SPECIFICATION Spec
CONSTANTS
    e1 = e1
    vacation = vacation
    other = other
    pto = pto
    unlimited = unlimited
    Employees = {e1}
    Policies = {pto, unlimited}
    Categories = {vacation, other}
    Requests = {r1, r2}
    JobSources = {j1}
    JobAmounts <- Amounts
    Assignments <- MixedAssignments
    FirstVersion <- MixedFirst
    Floors <- FloorsToMinusOne
    Partials = {0, 1}
    JobDates = {0}
    HolidayDates = {2}
    StatutoryDates = {1}
    ClockDates = {0, 1}
    NewVersions <- MixedNew
    MaxVersions = 2
    LastDate = 2
    DaysPerYear = 2
    WorkDates = {1, 2}
    DayMinutes = 2
    None = None
SYMMETRY Symmetric
INVARIANTS TypeOK SnapshotIsLedgerSum HoldIsPendingCost LedgerFollowsStatus LegsSumToTotal
INVARIANTS BalanceIsGrantsLessApproved NoLiveOverlap
PROPERTIES RequestsStopAtFloor ApprovalIsCovered
