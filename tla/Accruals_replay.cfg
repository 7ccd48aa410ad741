SPECIFICATION AccrualSpec
CONSTANTS
    e1 = e1
    g1 = g1
    p1 = p1
    r1 = r1
    run1 = run1
    vacation = vacation
    Employees = {e1}
    Admins = {}
    Groups = {g1}
    Policies = {p1}
    Categories = {vacation}
    CategoryOf <- OneCategory
    Drafts <- CappedOnly
    VersionDates = {4}
    AudienceDates = {1}
    ManualStaff = {e1}
    MaxVersions = 2
    MaxRows = 2
    LastDate = 9
    DaysPerYear = 5
    WorkDates = {}
    DayMinutes = 2
    MonthStarts = {0, 3, 5, 8}
    HalfMonth = 1
    WeekLength = 2
    PayAnchor = 0
    MinutesPerHour = 2
    AmountScale = 1
    None = None
    Hired <- HiredLate
    PayrollEnd <- YearEndPay
    WorkedMinutes = {4}
    RunDates = {3, 9}
    RolloverDates = {5}
    Requests = {r1}
    LeaveDates = {4}
    LeaveMinutes = {1}
    MaxRemakes = 1
    MaxEntries = 9
INVARIANTS ReplayIsNoOp
