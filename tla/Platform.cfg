SPECIFICATION MCSpec
CONSTANTS
    None = None
    MaxField = 33
    Player = {alice, bob}
    Guest = {carol}
    Invited = {alice}
    MaxPlayers = 2
    MaxSeed = 1
    Seeder = {r0}
    Crowds <- TheCrowds
    Nobody = nobody
    r0 = r0
    r1 = r1
    r2 = r2
    Uploads <- TheUploads
    MaxRow = 2
    MaxImage = 2
    Visits <- TheVisits
    Tournament = {"spring", "autumn"}
    Identity = {1, 2}
    MaxPaid = 1
    Doors <- TheDoors
    Address = {a1, a2}
    Void = void
    SignInLife = 1
    VerifyLife = 2
    Throttle = 2
    Tries = 2
    PasswordTries = 2
    PasswordWindow = 2
    MaxMinute = 3
    MaxRight = 2
    Match = {m1, m2}
    Flipper = {alice}
    Timing = {r0}
    Jobs = {job}
    Durations = {1}
    MaxTick = 2
    MaxStarts = 2
    Medal = {gold}
    Plaque = {ribbon}
    MaxPins = 1
    MaxGrant = 3
    MaxPicture = 2
    Juries <- TheJuries
    autumn = autumn
    Contents = {spring, autumn}
    Empty = autumn
    Key = {mail}
    Retention = 2
    Usages <- TheUsages
    MaxEvents = 1
SYMMETRY Alike
INVARIANT FirstRoundSeatsTheField
INVARIANT SeedsStayApart
INVARIANT DrawMatchesShape
INVARIANT MatchesNameEntrants
INVARIANT BuildImagesExist
INVARIANT ApprovalCoversWhatWasReviewed
INVARIANT ResultsCountOnce
INVARIANT GuessingIsSlow
INVARIANT VerifiedAddressIsProved
INVARIANT CountdownAnnouncedOnce
INVARIANT ShowcaseAsPut
INVARIANT WayBack
INVARIANT ServerKeepsItsSettings
PROPERTY RosterKeepsItsPromise
PROPERTY UnfinishedEventsKeepEntrants
CHECK_DEADLOCK FALSE
