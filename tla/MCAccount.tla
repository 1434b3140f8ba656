----------------------------- MODULE MCAccount -----------------------------
(* Instances of Account for TLC: the admin of a school and a student.       *)
EXTENDS Account, TLC

CONSTANTS adm, stu, c1, c2

MCSymmetry == Permutations(Calls)

\* The switch is looked at and used by others than the first admin, in the last
\* second, before a logout of all devices, an erasure or a password update.
MCSwitch ==
  (\E u \in Users : pages[u].tok # None /\ pages[u].shown = None
                       /\ pages'[u].shown # None)
    \/ (\E c \in Calls : toggles[c] = Idle /\ toggles'[c] # Idle)
  => /\ now = MaxSec /\ revoked = {} /\ erased = {} /\ raced = {}
     /\ \A u \in Users : ~jobs[u].on
     /\ pages'[FirstAdmin].shown = None

\* Revocations cannot be read once there are some, beside neither switch nor
\* password update.
MCUnread ==
  unread => /\ revoked # {} /\ raced = {} /\ now = MaxSec
            /\ \A u \in Users : ~jobs[u].on /\ pages[u].shown = None
            /\ \A c \in Calls : toggles[c] = Idle
=============================================================================
