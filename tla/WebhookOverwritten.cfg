SPECIFICATION Spec
CONSTANTS
    c1 = c1
    s1 = s1
    s2 = s2
    i1 = i1
    i2 = i2
    i3 = i3
    i4 = i4
    p1 = p1
    began1 = began1
    created1 = created1
    created2 = created2
    updated1 = updated1
    deleted1 = deleted1
    failed1 = failed1
    failed3 = failed3
    paid1 = paid1
    paid2 = paid2
    orphan = orphan
    other = other
    None = None
    Absent = Absent
    Events = {created1, paid1}
    Customers = {c1}
    Subs = {s1}
    Invoices = {i1}
    Periods = {p1}
    Kind <- EventsKind
    Subject <- EventsSubject
    Carried <- EventsCarried
    CustomerOf <- EventsCustomerOf
    Owner <- SubsOwner
    SubOf <- InvoicesSubOf
    PeriodOf <- InvoicesPeriodOf
    Requests = {r1, r2}
    Scripts = {}
    DrainLimit = 2
    MaxCrashes = 0
PROPERTIES
    ProcessedIsFinal
