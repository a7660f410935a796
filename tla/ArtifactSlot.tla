------------------------------ MODULE ArtifactSlot ------------------------------
(***************************************************************************)
(* What the staging root promises about one registered artifact: its slot  *)
(* is claimed by one signed authorization, filled at most once and only    *)
(* with the publisher's bytes, and receipted only to the authorization     *)
(* that filled it.  StagedAcquisition implements this with files, a resume *)
(* binding and a rename (phase0/acquisition.py, phase0/staging_v4_3.py).   *)
(***************************************************************************)
CONSTANTS Auths, None

VARIABLES
  content,   \* "absent", "exact" or (never) "corrupt"
  holder,    \* the authorization that claims the slot, or None
  filler,    \* the authorization under which it was filled, or None
  receipted  \* the authorizations that hold an acquisition receipt

slotVars == <<content, holder, filler, receipted>>

Init ==
  /\ content = "absent"
  /\ holder = None
  /\ filler = None
  /\ receipted = {}

Claim(a) ==
  /\ content = "absent" /\ holder = None
  /\ holder' = a
  /\ UNCHANGED <<content, filler, receipted>>

Fill ==
  /\ content = "absent" /\ holder # None
  /\ content' = "exact"
  /\ filler' = holder
  /\ UNCHANGED <<holder, receipted>>

Release ==
  /\ content = "exact" /\ holder # None
  /\ holder' = None
  /\ UNCHANGED <<content, filler, receipted>>

Receipt ==
  /\ content = "exact" /\ holder = None
  /\ receipted' = receipted \cup {filler}
  /\ UNCHANGED <<content, holder, filler>>

Next == (\E a \in Auths : Claim(a)) \/ Fill \/ Release \/ Receipt

Spec == Init /\ [][Next]_slotVars
=================================================================================
