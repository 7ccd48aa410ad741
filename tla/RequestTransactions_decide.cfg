SPECIFICATION TxSpec
CONSTANTS
    e1 = e1
    vacation = vacation
    sickness = sickness
    pto = pto
    sick = sick
    r1 = r1
    r2 = r2
    r3 = r3
    t1 = t1
    t2 = t2
    t3 = t3
    t4 = t4
    t5 = t5
    t6 = t6
    t7 = t7
    payroll = payroll
    accrual = accrual
    Employees = {e1}
    Policies = {pto}
    Categories = {vacation}
    Requests = {r1, r2, r3}
    JobSources = {payroll, accrual}
    JobAmounts <- JobMinutes
    Assignments <- OneAssignment
    FirstVersion <- NegativePolicy
    Floors <- FloorMinusFour
    Partials = {0, 1}
    JobDates = {0}
    HolidayDates = {}
    StatutoryDates = {}
    ClockDates = {0}
    NewVersions = {}
    MaxVersions = 1
    LastDate = 3
    DaysPerYear = 2
    WorkDates = {0, 1, 2, 3}
    DayMinutes = 2
    None = None
    Txns = {t1, t2, t3, t4, t5, t6, t7}
    Calls <- DecisionCalls
INVARIANTS TxTypeOK OneDecision
PROPERTIES ImplementsSerial
