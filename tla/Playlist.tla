------------------------------ MODULE Playlist ------------------------------
(***************************************************************************)
(* What the jukebox promises about the order of play (README.md:10-18): a  *)
(* track is queued at most once; tracks of the admin playlist are played   *)
(* first, in order of insertion; a track of the user playlist is played    *)
(* only when the admin playlist is empty; a track is played once each time *)
(* it was added, unless an admin withdraws it.  How the next track of the  *)
(* user playlist is chosen is left open: that is what the votes are for.   *)
(***************************************************************************)
EXTENDS Sequences, SequencesExt

CONSTANTS TrackIds, NoTrack

VARIABLES
    admin,    \* the admin playlist, first to be played first
    user,     \* the user playlist
    current   \* the track played last

plVars == <<admin, user, current>>

PLInit ==
    /\ admin = <<>>
    /\ user = {}
    /\ current = NoTrack

Known(t) == t \in user \/ \E i \in DOMAIN admin : admin[i] = t

Enqueue(t) ==
    /\ ~Known(t)
    /\ \/ admin' = Append(admin, t) /\ user' = user
       \/ user' = user \cup {t} /\ admin' = admin
    /\ UNCHANGED current

Withdraw(t) ==
    /\ \/ \E i \in DOMAIN admin : admin[i] = t /\ admin' = RemoveAt(admin, i) /\ user' = user
       \/ t \in user /\ user' = user \ {t} /\ admin' = admin
    /\ UNCHANGED current

PlayAdmin ==
    /\ admin # <<>>
    /\ current' = Head(admin)
    /\ admin' = Tail(admin)
    /\ UNCHANGED user

PlayUser ==
    /\ admin = <<>>
    /\ \E t \in user : current' = t /\ user' = user \ {t}
    /\ UNCHANGED admin

Play == PlayAdmin \/ PlayUser

PLNext == Play \/ \E t \in TrackIds : Enqueue(t) \/ Withdraw(t)

PLSpec == PLInit /\ [][PLNext]_plVars

=============================================================================
