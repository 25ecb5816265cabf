\* Two pages, two titles, four requests of an administrator and a contributor.
SPECIFICATION Spec
CONSTANTS
  admin = admin
  member = member
  x = x
  y = y
  Admins <- TheAdmins
  Contributors <- TheMembers
  Seeder = member
  MaxTitle = 2
  Texts <- TwoTexts
  Mentions <- CrossLinks
  Shipped = x
  MaxPages = 2
  MaxVersions = 5
  MaxRequests = 4
INVARIANT TypeOK
INVARIANT ShowsLastApproved
INVARIANT SealedByLevel
INVARIANT NoDanglingLink
PROPERTY PublishingRepairsIndex
PROPERTY ImplementsReview
\* The bound on requests stops every behaviour.
CHECK_DEADLOCK FALSE
