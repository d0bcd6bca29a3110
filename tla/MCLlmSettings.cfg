\* Two pages load, choose and save; one release, any row to start from.
SPECIFICATION Spec
CONSTANTS
  p1 = p1
  p2 = p2
  opus = opus
  gpt = gpt
  Pages = {p1, p2}
  Tiers <- MCTiers
  Routes = {opus, gpt}
  ProviderOf <- MCProviderOf
  Default <- MCDefault
  Deployments = {{"anthropic"}, {"openai"}}
  Catalogs <- MCCatalogs
  FirstCatalog <- MCFull
  MaxSaves = 2
  MaxDeploys = 1
  MaxChoices = 1
  Unset = Unset
  Garbage = Garbage
  NotLoaded = NotLoaded
SYMMETRY MCSymmetry
INVARIANTS
  TypeOK
  SavedIsUsed
  BadRowKeepsBotUp
PROPERTY UntouchedTierIsKept
\* The bounds let the instance come to rest.
CHECK_DEADLOCK FALSE
