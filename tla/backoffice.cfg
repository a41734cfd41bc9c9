\* Support: three incidents, to merge one that has others, and three corrections
\* of one text, read a row at a time.  Attachments: a logo replaced by another,
\* and a file sent twice.  Restoration: three copies, two restores, one fault.
\* Access: two users, two changes of the security of each.
\* Invoices: three lines added to one.  Purchases: two, with one refund.
\* Customers: one, two stores, three addresses, two accounts, three mandates and
\* a direct debit.  Catalog: two tax rates, one item that changes three times,
\* two requests.  Waivers: one review, two requests of each kind, four persons.
\* Credentials: two certificates, three versions, three trials, two processes.
\* Requests: three with one key and one body or two.
\* Worker processes: two, with two cycles at most.
SPECIFICATION Spec
CONSTANTS
    Incidents = {a, b, c}
    Communications = {m}
    Customers = {x, y}
    Staff = {v, w}
    Administrators = {w}
    Notes = {n}
    Texts = {x, y}
    PageSize = 1
    MaxIncident = 5
    Categories = {k, l}
    Elaborate = 1
    Uploads = {l1, l2, u1, u2}
    Logos = {l1, l2}
    KeyOf <- Keys
    Backups = {b1, b2, b3}
    Restores = {once, again}
    Sessions = {o}
    MaxFaults = 1
    Users = {n1, n2}
    Roles = {admin, clerk}
    Administrator = admin
    Passwords = {p, q}
    MaxFailedAttempts = 1
    MaxVersion = 2
    Invoices = {i}
    Adders = {d1, d2, d3}
    Orders <- InvoicedLines
    Purchases = {p1, p2}
    Bills <- BillsBought
    Quantities = {500, 1000}
    Part = 60
    Refunds = {f1}
    Buyers = {e1, e2}
    Clients = {k1}
    Stores = {t1, t2}
    Addresses = {j1, j2, j3}
    Reaches = {r1}
    Ibans = {i1, i2}
    References = {g1, g2, g3}
    Debits = {d1}
    Types = {billing, shipping}
    Missing = Missing
    Rates = {h1, h2}
    Seeded = h1
    Groups = {g}
    Items = {m}
    Clerks = {q1, q2}
    Changes <- Adjustments
    Counts = {0, 1}
    MaxChanges = 3
    Reviews = {w1}
    Reversals = {z1, z2}
    Replacements = {z3, z4}
    Actors = {y1, y2, y3, y4}
    Posts = {q3, q4, q5}
    Bodies = {b1, b2}
    Certificates = {c1, c2}
    CertVersions = {n1, n2, n3}
    Trials = {k1, k2, k3}
    Servers = {p1, p2}
    NoCertificate = NoCertificate
    NoVersion = NoVersion
    MaxWrong = 2
    WorkerProcesses = {n1, n2}
    MaxCycles = 2
    l1 = l1
    l2 = l2
    u1 = u1
    u2 = u2
    again = again
    n1 = n1
    n2 = n2
    n3 = n3
    k1 = k1
    k2 = k2
    k3 = k3
    c1 = c1
    c = c
    v = v
    p = p
    p1 = p1
    p2 = p2
    f1 = f1
    y1 = y1
    y2 = y2
CHECK_DEADLOCK FALSE
INVARIANTS
    SupportConsistent
    UploadsConsistent
    RestoresAreSafe
    SessionsAreCurrent
    InvoicesAddUp
    PurchasesAddUp
    CustomersConsistent
    CatalogConsistent
    WaiversConsistent
    RequestsWorkOnce
    RequestsGuarded
    RotationIsSafe
PROPERTIES
    LinksAreDeliberate
    RunsAreTrue
