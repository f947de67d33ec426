---------------------------- MODULE VolumeControl ----------------------------
(***************************************************************************)
(* The volume, over the locks of LockOrder.  JukeBox::controlPlayer reads  *)
(* the volume of the playback in one section and sets it, ten percent      *)
(* higher or lower, in another: the volume is read as a size_t, changed in *)
(* size_t, passed on as an int and clamped there.  It is read off the      *)
(* device that plays and set on the device of the configuration.           *)
(***************************************************************************)
EXTENDS LockOrder

CONSTANTS
    Devices,
    NoDevice,
    Configured,   \* playingDevice of the configuration, or NoDevice
    MaxVolume,    \* 100
    Step,         \* volChangePercent: 10
    IntModulus,   \* the number of values of int
    SizeModulus,  \* the number of values of size_t
    NoChange

ASSUME DeviceAssumption == NoDevice \notin Devices /\ Configured \in Devices \cup {NoDevice}
ASSUME NoChangeAssumption == NoChange \notin [up : BOOLEAN, base : 0..MaxVolume]
ASSUME VolumeAssumption ==
    /\ MaxVolume \in Nat /\ Step \in Nat /\ IntModulus \in Nat \ {0}
    /\ 2 * (MaxVolume + Step) < IntModulus
    /\ SizeModulus \in Nat \ {0} /\ SizeModulus % IntModulus = 0

VARIABLES
    volume,   \* of each device
    active,   \* the device that plays, or NoDevice
    change    \* what a thread has read and is going to do, between its two calls

vcVars == <<loVars, volume, active, change>>
volumeVars == <<volume, active, change>>

VCInit ==
    /\ LOInit
    /\ volume \in [Devices -> 0..MaxVolume]
    /\ active = NoDevice
    /\ change = [th \in Threads |-> NoChange]

-----------------------------------------------------------------------------

AsSize(n) == n % SizeModulus

\* Wrong: the volume stays unsigned on its way to the clamp.
AsUnsigned(n) == n % IntModulus

AsInt(n) == LET r == n % IntModulus IN IF 2 * r < IntModulus THEN r ELSE r - IntModulus

\* Wrong: only the upper end is checked.
ClampAbove(n) == IF n > MaxVolume THEN MaxVolume ELSE n

Clamp(n) == IF n > MaxVolume THEN MaxVolume ELSE IF n < 0 THEN 0 ELSE n

\* What is sent to Spotify for a volume read as base.
Sent(up, base) == Clamp(AsInt(AsSize(IF up THEN base + Step ELSE base - Step)))

\* A request of an admin begins with getVolume and goes on with setVolume.
Begin(th) ==
    /\ \E f \in SectionsOf(th) :
          /\ IF change[th] = NoChange THEN f # "setVolume" ELSE f = "setVolume"
          /\ Enter(th, f)
    /\ UNCHANGED volumeVars

LockOrUnlock(th) ==
    /\ Acquire(th) \/ Release(th) \/ Refresh(th)
    /\ UNCHANGED volumeVars

\* Any other work.  If it ends setVolume, on an error, the volume is left alone.
OtherWork(th) ==
    /\ Work(th, "none") \/ Work(th, "ask")
    /\ change' = IF goals'[th] = <<>> THEN [change EXCEPT ![th] = NoChange] ELSE change
    /\ UNCHANGED <<volume, active>>

\* getVolume fails without a playback.
GetVolume(th) ==
    /\ Working(th, "getVolume")
    /\ Return(th)
    /\ \/ UNCHANGED change
       \/ /\ active # NoDevice
          /\ \E up \in BOOLEAN :
                change' = [change EXCEPT ![th] = [up |-> up, base |-> volume[active]]]
    /\ UNCHANGED <<volume, active>>

\* setVolume: without the configured device it is the one that plays that is set.
SetVolume(th) ==
    /\ Working(th, "setVolume")
    /\ Return(th)
    /\ \/ UNCHANGED volume
       \/ \E d \in {Configured, active} \ {NoDevice} :
             volume' = [volume EXCEPT ![d] = Sent(change[th].up, change[th].base)]
    /\ change' = [change EXCEPT ![th] = NoChange]
    /\ UNCHANGED active

\* The user of Spotify plays on another device, or stops.
Transfer ==
    /\ active' \in (Devices \cup {NoDevice}) \ {active}
    /\ UNCHANGED <<loVars, volume, change>>

ThreadStep(th) == LockOrUnlock(th) \/ OtherWork(th) \/ GetVolume(th) \/ SetVolume(th)

VCNext == Transfer \/ \E th \in Threads : Begin(th) \/ ThreadStep(th)

VCSpec == VCInit /\ [][VCNext]_vcVars

-----------------------------------------------------------------------------
(* Properties.                                                             *)

\* Type invariant of the volume control: no volume is out of range either.
VCTypeOK ==
    /\ volume \in [Devices -> 0..MaxVolume]
    /\ active \in Devices \cup {NoDevice}
    /\ change \in [Threads -> [up : BOOLEAN, base : 0..MaxVolume] \cup {NoChange}]

\* A request moves the volume it has read by at most ten percent, and in the
\* direction that was asked for, although the difference is taken in size_t and
\* wraps around below zero.
VolumeStepBounded ==
    [][\A d \in Devices : volume'[d] # volume[d]
         => \E th \in Threads :
               /\ change[th] # NoChange
               /\ LET base == change[th].base
                  IN IF change[th].up
                     THEN base <= volume'[d] /\ volume'[d] <= base + Step
                     ELSE base - Step <= volume'[d] /\ volume'[d] <= base]_vcVars

=============================================================================
