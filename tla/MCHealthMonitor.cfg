SPECIFICATION FairSpec
CONSTANT N = 2
INVARIANTS RoundsDoNotOverlap ReportedIsQuiet
PROPERTIES FlagsFollowReports StopsChecking StopSettles DownIsNoticed
