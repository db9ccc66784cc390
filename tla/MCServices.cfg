CONSTANTS
    Handlers = {"h1", "h2", "w"}
    Workers = {"w"}
    MaxCalls = 6
    Events = {"leave"}
    Users = {"ann", "bob"}
    Actor = "bob"
    MaxSends = 5
    Files <- MCFiles
    Attached <- MCFiles
    Infected <- MCInfected
    JobIds <- MCJobs
    Attempts = 2
    MaxFaults = 2
    Leavers = {"E1"}
    Amounts = {1, 3}
    Paid = {"E1", "E2"}
    SalarySheets <- MCSheets
    MoreStarts = {4, 6}
    Grosses = {60, 140}
    FirstMonths = {7, 10}
    MaxOpen = 2
SPECIFICATION MCSpec
INVARIANTS MailAddsUp DocumentsAddUp PaySettingsAddUp FiguresAreSound
PROPERTIES WorkIsSettled WhatIsDecidedStands
CHECK_DEADLOCK FALSE
