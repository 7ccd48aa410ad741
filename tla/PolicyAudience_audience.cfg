SPECIFICATION AudienceSpec
CONSTANTS
    e1 = e1
    e2 = e2
    boss = boss
    g1 = g1
    g2 = g2
    p1 = p1
    p2 = p2
    vacation = vacation
    Employees = {e1, e2, boss}
    Admins = {boss}
    Groups = {g1, g2}
    Policies = {p1, p2}
    Categories = {vacation}
    CategoryOf <- OneCategory
    Drafts <- TierDrafts
    VersionDates = {2}
    AudienceDates = {1, 2}
    ManualStaff = {e1, e2}
    MaxVersions = 2
    MaxRows = 3
    LastDate = 2
    DaysPerYear = 3
    WorkDates = {}
    DayMinutes = 2
    MonthStarts = {0}
    HalfMonth = 1
    WeekLength = 1
    PayAnchor = 0
    MinutesPerHour = 2
    AmountScale = 1
    None = None
SYMMETRY Symmetric
INVARIANTS AudienceTypeOK OneGroupPerEmployee OneRowPerCategory MovesSucceed VersionsInOrder JobsFindATier
PROPERTIES AudienceTakesEffect HistoryIsKept
