\* Three processes of the installed exe and one of the Store's.
SPECIFICATION Spec
CONSTANTS
  Proc = {p1, p2, p3, s1}
  Packaged = {s1}
SYMMETRY Symmetry
INVARIANTS
  TypeOK
  SwitchIsTrue
  EntryFollowsTheExe
  QuietSignIn
