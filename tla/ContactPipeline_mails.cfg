\* Two submissions, one crash, fair scheduling.
SPECIFICATION FairSpec
CONSTANTS
  c1 = c1  c2 = c2
  Contacts <- TwoContacts
  MaxCrashes = 1
INVARIANTS
  NoMailTwice
  AuditClaimsNoUnsentMail
  AttemptsAreAudited
  ReplyFollowsNotification
  MailsNeverChangeAnswers
PROPERTIES
  SubmissionsAreNotified
  ListenersEnd
