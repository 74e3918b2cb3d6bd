SPECIFICATION Spec
CONSTANTS
    Call = {r1, r2}
    None = None
    Location = {l1, l2, l3}
    Name = {x, y}
    Shelved = {k1}
    Page = r1
    MaxLocationOps = 3
    Invite = {i1}
    Email = {e1, e2}
    InviteTTL = 2
    ReservationTTL = 1
    MaxInviteClock = 2
    MaxSignups = 2
    User = {u1, u2, u3}
    FirstAdmin = u1
    SecondAdmin = u2
    MaxAdminOps = 2
    MaxAdminClock = 2
    PageCount = 200
    PageNumber = {0, 199, 200}
    ReadPercent = {0, 50, 100}
    MaxCopyOps = 3
    TagKey = {g1, g2}
    TagCopy = {c1, c2}
    DialogCopy = c1
    MaxTagIds = 2
    MaxTagOps = 2
    Author = {a1, a2}
    Reader = {u1}
    MaxCatalogueOps = 3
    Owner = {o1}
    Shared = Shared
    MaxCoverOps = 3
    Isbn = {b1, b2}
    MaxAttempts = 1
    MaxScannerOps = 2
    Copy = {k1, k2, k3}
    Edition = {d1, d2}
    Shelf = Shelf
    Label = Label
    MaxEdits = 1
    MaxTransfers = 3
    Listing = {n1, n2, n3}
    Wishlist = {n3}
    Found = {n1, n3}
    PageSize = 1
    MaxResults = 2
    MaxPageOps = 3
    Address = {ad1, ad2}
    FirstAddress = ad1
    MaxAccountOps = 2
    Person = {m1, m2}
    Administrator = {m1}
    AuditPageSize = 1
    MaxAuditOps = 2
    Blob = {v1, v2}
    Release = {1, 2}
    MaxBackupOps = 5
    Loaned = {q1, q2}
    Text = {t1}
    MaxLoanOps = 3
    RosterEntry = {t2, t3, t4}
    OwnEntry = t2
    RosterPageSize = 1
    MaxRosterOps = 3
VIEW PartView
CHECK_DEADLOCK FALSE
INVARIANTS
      InvitesAccountForSignups
    AnAdminRemains CopyHangsTogether PageShowsTheRating
    CreatorsAllSave  CoversMatchTheirUse
    PendingIsPending  
    SettingsTellTheTruth AuditTellsWhatHappened BackupsRestore
     
PROPERTIES  TagsStay AuthorsStay
