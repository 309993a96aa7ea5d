----------------------------- MODULE MCServer40 -----------------------------
(* Server40 on small instances.  Lock owners and files are interchangeable.   *)
EXTENDS Server40

CONSTANTS x1, x2

BothClients == {x1, x2}
Symmetry == Permutations(LockOwners) \cup Permutations(Files)

Share(access, deny) == [access |-> access, deny |-> deny]
OneShare == {Share({"R", "W"}, {})}
\* That, and a reader that denies writing
TwoShares == OneShare \cup {Share({"R"}, {"W"})}

OneRange == {<<0, 0>>}
\* Ranges that split another in three, and that meet and overlap at an end
SomeRanges == {<<0, 2>>, <<1, 1>>, <<1, 2>>}

OfClient == {"SETCLIENTID", "SETCLIENTID_CONFIRM", "RENEW"}
OfOpens == {"OPEN", "OPEN_CONFIRM", "OPEN_DOWNGRADE", "CLOSE"}
OfLocks == {"LOCK_NEW", "LOCK", "LOCKU"}
All == OfClient \cup OfOpens \cup OfLocks \cup {"LOCKT", "IO"}

Scenario(open, requests, files, shares, ranges, calls, faults, boots, expiries) ==
  [open |-> open, requests |-> requests, files |-> files, shares |-> shares,
   ranges |-> ranges,
   max |-> [calls |-> calls, faults |-> faults, boots |-> boots, expiries |-> expiries]]

\* Clients that begin: SETCLIENTID again, OPENs that are yet to be confirmed
Beginning ==
  {Scenario(<<>>, OfClient \cup OfOpens \cup {"LOCK_NEW"}, Files, TwoShares, OneRange,
            4, 1, 0, 0)}

\* Two clients that lock one file and close it, and an answer is lost or a
\* lease runs out
Locking ==
  {Scenario(<<<<x1, h>>, <<x2, h>>>>, OfLocks \cup {"CLOSE", "RENEW"}, {h}, OneShare, OneRange,
            4, 1 - expired, 0, expired) : h \in Files, expired \in {0, 1}}

\* Everything that two clients may ask who have the file open
Anything ==
  {Scenario(<<<<x1, h>>, <<x2, h>>>>, All, {h}, OneShare, OneRange, 3, 1, 0, 1) : h \in Files}

\* One client whose lock owners split and join their locks
Splitting ==
  {Scenario(<<<<x1, h>>>>, OfLocks, {h}, OneShare, SomeRanges, 4, 0, 0, 0) : h \in Files}

\* A client that reboots and comes back with locks of its past
Rebooting ==
  {Scenario(<<<<x1, h>>>>, OfClient \cup {"OPEN", "OPEN_CONFIRM", "LOCK_NEW"}, {h}, OneShare,
            OneRange, 4, 1, 1, 0) : h \in Files}

\* One client with two files open that tests a lock of one while it has the other
Testing ==
  {Scenario(<<<<x1, h[1]>>, <<x1, h[2]>>>>, {"CLOSE", "LOCK_NEW", "LOCKU", "LOCKT"}, Files,
            OneShare, OneRange, 4, 0, 0, 0) : h \in {k \in Files \X Files : k[1] # k[2]}}

SmallScenarios ==
  Beginning \cup Locking \cup Anything \cup Splitting \cup Rebooting \cup Testing

\* One client that opens, locks with two lock owners, and closes
Closing ==
  {Scenario(<<<<x1, h>>>>, {"CLOSE", "LOCK_NEW"}, {h}, OneShare, OneRange,
            3, 0, 0, 0) : h \in Files}
=============================================================================
