------------------------- MODULE DeploymentLifecycle -------------------------
(***************************************************************************)
(* What managed hosting promises of the deployments of one target, without *)
(* saying who moves them: a deployment gets its image once and never       *)
(* another, ships only with an image, rolls back only to what was live, is *)
(* retired only while another one is live, and never leaves a closed or    *)
(* retired state.  Hosting implements it.                                  *)
(***************************************************************************)
EXTENDS Naturals

CONSTANTS IDs, Images, NoImage

VARIABLES phase, image

vars == <<phase, image>>

Phases == {"none", "pending", "rolling", "live", "retired", "closed"}

TypeOK ==
    /\ phase \in [IDs -> Phases]
    /\ image \in [IDs -> Images]

Init ==
    /\ phase = [d \in IDs |-> "none"]
    /\ image = [d \in IDs |-> NoImage]

Move(d, from, to) ==
    /\ phase[d] \in from
    /\ phase' = [phase EXCEPT ![d] = to]

\* A new deployment, with the image of an earlier release when it rolls back.
Create(d, i) ==
    /\ Move(d, {"none"}, "pending")
    /\ \A e \in IDs : e < d => phase[e] # "none"
    /\ i = NoImage \/ \E e \in IDs : phase[e] \in {"live", "retired"} /\ image[e] = i
    /\ image' = [image EXCEPT ![d] = i]

\* The image that was built for a deployment; it has no other one.
Build(d, i) ==
    /\ phase[d] = "pending"
    /\ image[d] = NoImage
    /\ i # NoImage
    /\ image' = [image EXCEPT ![d] = i]
    /\ UNCHANGED phase

Ship(d) ==
    /\ image[d] # NoImage
    /\ Move(d, {"pending"}, "rolling")
    /\ UNCHANGED image

GoLive(d) == Move(d, {"rolling"}, "live") /\ UNCHANGED image

\* A release stops being the live one only for another one.
Retire(d) ==
    /\ \E e \in IDs \ {d} : phase[e] = "live"
    /\ Move(d, {"live"}, "retired")
    /\ UNCHANGED image

Close(d) == Move(d, {"pending", "rolling"}, "closed") /\ UNCHANGED image

Next ==
    \E d \in IDs :
        \/ Ship(d) \/ GoLive(d) \/ Retire(d) \/ Close(d)
        \/ \E i \in Images : Create(d, i) \/ Build(d, i)

Spec == Init /\ [][Next]_vars
=============================================================================
