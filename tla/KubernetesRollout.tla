------------------------- MODULE KubernetesRollout -------------------------
(***************************************************************************)
(* What adapters/kubernetes.py does to the objects of one environment, as  *)
(* functions of their state:                                               *)
(*   template    image of the canonical Deployment                         *)
(*   past        image of its revision before, or NoImage                  *)
(*   candidates  [revision, image] of the candidate Deployments            *)
(*   selector    [component, revision]: the labels that the stable Service  *)
(*               selects, besides those of the environment                 *)
(* A candidate's Service and canary Ingress live and die with it.  A merge *)
(* patch, and apply for a key it never applied, leave the keys they do not *)
(* name: a revision once patched in is never removed.                      *)
(***************************************************************************)
EXTENDS Naturals

NoImage == 0
NoRevision == 0
Stable == [component |-> "odoo", revision |-> NoRevision]
CandidateSelector(revision) == [component |-> "odoo-candidate", revision |-> revision]
Selector(Revision) == [component : {"odoo", "odoo-candidate"}, revision : Revision \cup {NoRevision}]

Workload(Image) ==
  [template : Image, past : Image \cup {NoImage}, selector : Selector(Image),
   candidates : SUBSET [revision : Image, image : Image]]

(* A new template becomes a revision; applying an unchanged one does not.  *)
NewRevision(w, image) ==
  IF w.template = image THEN w ELSE [w EXCEPT !.template = image, !.past = w.template]

Merged(selector, patch) ==
  [patch EXCEPT !.revision = IF @ = NoRevision THEN selector.revision ELSE @]
Selecting(w, patch) == [w EXCEPT !.selector = Merged(@, patch)]

(* up: the rendered Service selects the canonical Deployment.              *)
Up(w, image) == Selecting(NewRevision(w, image), Stable)

(* restart: a revision of the same image.                                  *)
Restarted(w) == [w EXCEPT !.past = w.template]

Candidate(w, revision, image) ==
  [w EXCEPT !.candidates = {c \in @ : c.revision # revision}
                            \cup {[revision |-> revision, image |-> image]}]

Deleted(w, revision) == [w EXCEPT !.candidates = {c \in @ : c.revision # revision}]

(* rollout undo                                                            *)
CanUndo(w) == w.past # NoImage
Undone(w) == [w EXCEPT !.template = w.past, !.past = w.template]

(* The images that answer requests: the pods of the canonical Deployment   *)
(* have no revision label.                                                 *)
Serving(w) ==
  IF w.selector = Stable THEN {w.template}
  ELSE {c.image : c \in {d \in w.candidates : CandidateSelector(d.revision) = w.selector}}
=============================================================================
