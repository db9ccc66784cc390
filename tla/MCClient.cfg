\* Every screen for every role, two clicks and one change by somebody else;
\* the setup wizard with three edits and four saves;
\* two logins of two workspaces and five questions who they are.
CONSTANTS
    Accounts <- MCAccounts
    MaxAsked = 3
    MaxClicked = 2
    MaxMoved = 1
    MaxTyped = 3
    MaxSaves = 4
    Home <- MCHome
    MaxChecks = 5
SPECIFICATION MCSpec
INVARIANTS OffersHold ViewsAreCurrent BrowserIsTrue
PROPERTIES SettledStaysSettled
CHECK_DEADLOCK FALSE
