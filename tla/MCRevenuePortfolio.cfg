SPECIFICATION PortfolioSpec
CONSTANTS
  shop = shop
  ads = ads
  blog = blog
  Sources = {shop, ads, blog}
  Connected = {shop, blog}
  Sound = {shop, ads}
  Trusted = {blog}
  Expected <- MCExpected
  Amounts = {0, 2}
  Brought <- MCBrought
  MaximumSources = 2
  Experiments = {e1}
  Readers = {r1, r2}
  MaxInputs = 5
  MaxRestarts = 1
  None = None
CHECK_DEADLOCK FALSE
SYMMETRY Symmetry
INVARIANTS ProductiveIsAuthorized IncomeIsRecorded ReplacedIsRetired
