SPECIFICATION WebSpec
CONSTANTS
  None = None
  carbon = carbon
  silicon = silicon
  ting1 = ting1
  ting2 = ting2
  needle1 = needle1
  needle2 = needle2
  Accounts = {carbon, silicon}
  Silicons = {silicon}
  Flows = {f1, f2}
  Tokens = {t1}
  Holder <- TheHolder
  MaxDisturbed = 4
  Paths = {p1, p2}
  LastPage = 2
  MaxVersion = 1
  MaxHappened = 4
  Tings = {ting1, ting2}
  Recipient <- TheRecipients
  MaxViewed = 5
  Ids = {i1, i2}
  Nowhere = Nowhere
  Base = 1
  Longer = 2
  Limit = 2
  MaxCalls = 4
  Documents <- TheDocuments
  Needles = {needle1, needle2}
  NoNeedle = NoNeedle
  MoreRow = 99
  PageSize = 1
  MaxMatches = 2
  ExpandDepth = 1
  Stops <- TheStops
  Group = "theme"
  SignOutStop = "signout"
  Label <- TheLabels
  Letters = {"s", "e"}
  MaxTyped = 2
  Themes <- TheThemes
  Text <- TheText
  MaxCopies = 3
  Options <- TheOptions
  Disabled = {"b"}
  Queries = {"", "q", "r", "none"}
  Empty = ""
  Finds <- TheFinds
  NoOption = "-"
  Apps = {"app1", "app2"}
  Names = {"name"}
  NotAName = "?"
  NoApp = ""
  MaxAnswers = 1
  Tips = {tip1, tip2, tip3}
INVARIANTS WebInv PagesContinue ClockKeepsTime MatchesAreVisible
PROPERTIES LateListAnswersEndNothing SpinnersStop  OnlySeenIsRead OpenTingIsRead ClicksCloseWhatWasOpen
CHECK_DEADLOCK FALSE
