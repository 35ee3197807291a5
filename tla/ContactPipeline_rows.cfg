\* A save of the try block that is stored and rejected all the same.
SPECIFICATION Spec
CONSTANTS
  c1 = c1  c2 = c2
  Contacts <- TwoContacts
  MaxCrashes = 0
INVARIANT EachAttemptWritesOneRow
