------------------------------- MODULE Deploy --------------------------------
(***************************************************************************)
(* falcon-website-deploy.sh with dockertags.sh, in                         *)
(* falcon-website-minikube-yaml/: several deployments at once, on the host *)
(* that firstboot.sh sets up, while tags are pushed to the registry and    *)
(* removed.  A deployment may be killed between two commands.              *)
(***************************************************************************)
EXTENDS FirstBoot

CONSTANTS
  Deployers, Tags,
  Args,     \* what they are called with
  Matches,  \* the pairs of an argument and a tag in which grep finds it
  Files,    \* bound: temporary files
  None

ASSUME DeployAssumption ==
  /\ Matches \subseteq Args \X Tags
  /\ None \notin Args \cup Files
  /\ \A s \in SUBSET Tags : s # None

VARIABLES
  registry,  \* the tags it has
  image,     \* the tag that the cluster's deployment names
  tmp,       \* contents of the temporary files
  dpc, arg, file, matched, \* per deployment, its place and its variables
  said,      \* what it printed as the tags found
  list,      \* history: what dockertags.sh printed for it
  kept,      \* history: the file took all of that
  listed     \* history: every tag that was ever listed

locals     == <<dpc, arg, file, matched, said, list, kept>>
deployVars == <<registry, image, tmp, locals, listed>>

DeployInit ==
  /\ registry \in SUBSET Tags /\ image = None
  /\ tmp = [f \in Files |-> None]
  /\ dpc = [p \in Deployers |-> "idle"]
  /\ arg = [p \in Deployers |-> None] /\ file = [p \in Deployers |-> None]
  /\ matched = [p \in Deployers |-> FALSE]
  /\ said = [p \in Deployers |-> None] /\ list = [p \in Deployers |-> {}]
  /\ kept = [p \in Deployers |-> FALSE]
  /\ listed = {}

Goto(p, l) == dpc' = [dpc EXCEPT ![p] = l]

(* Its variables go with the process.                                      *)
Exit(p) ==
  /\ Goto(p, "idle")
  /\ arg' = [arg EXCEPT ![p] = None] /\ file' = [file EXCEPT ![p] = None]
  /\ matched' = [matched EXCEPT ![p] = FALSE]
  /\ said' = [said EXCEPT ![p] = None] /\ list' = [list EXCEPT ![p] = {}]
  /\ kept' = [kept EXCEPT ![p] = FALSE]

(* A file that has no name is never there.                                 *)
Contents(f) == IF f \in Files THEN tmp[f] ELSE {}
Put(f, c)   == [g \in Files |-> IF g = f THEN c ELSE tmp[g]]

(* Slip: one name for all.                                                 *)
NewFile_Fixed == {CHOOSE f \in Files : TRUE}

NewFile == {f \in Files : tmp[f] = None}

(* mktemp may fail: without errexit the script goes on, with an empty name.*)
(* It comes before the argument is looked at: without one, nounset ends the*)
(* script and the file stays.                                              *)
MkTemp(p) ==
  /\ dpc[p] = "idle"
  /\ \E f \in NewFile \cup {None} :
       /\ tmp' = Put(f, {})
       /\ \/ /\ \E a \in Args : arg' = [arg EXCEPT ![p] = a]
             /\ file' = [file EXCEPT ![p] = f]
             /\ Goto(p, "list") /\ UNCHANGED <<matched, said, list, kept>>
          \/ UNCHANGED locals
  /\ UNCHANGED <<registry, image, listed>>

(* Slip: the status is that of the whole pipeline but for its last command.*)
Status_OfTee(a, tags) == TRUE

(* "$?" is the status of grep.                                             *)
Status(a, tags) == \E t \in tags : <<a, t>> \in Matches

(* What dockertags.sh prints: nothing when curl fails.                     *)
Printed == {registry, {}}

(* The pipeline: into grep, and into the file as far as tee can, whose     *)
(* failing is not looked at.                                               *)
ListTags(p) ==
  /\ dpc[p] = "list"
  /\ \E tags \in Printed :
       /\ list' = [list EXCEPT ![p] = tags]
       /\ listed' = listed \cup tags
       /\ \E part \in SUBSET tags :
            /\ tmp' = Put(file[p], part)
            /\ kept' = [kept EXCEPT ![p] = file[p] # None /\ part = tags]
       /\ matched' = [matched EXCEPT ![p] = Status(arg[p], tags)]
  /\ Goto(p, "act")
  /\ UNCHANGED <<registry, image, arg, file, said>>

(* kubectl may fail, and does without minikube: that is not looked at.     *)
SetImage(p) ==
  /\ dpc[p] = "act" /\ matched[p]
  /\ image' \in {image} \cup (IF bin = Minikube THEN {arg[p]} ELSE {})
  /\ Goto(p, "rm")
  /\ UNCHANGED <<registry, tmp, arg, file, matched, said, list, kept, listed>>

ShowTags(p) ==
  /\ dpc[p] = "act" /\ ~matched[p]
  /\ said' = [said EXCEPT ![p] = Contents(file[p])]
  /\ Goto(p, "rm")
  /\ UNCHANGED <<registry, image, tmp, arg, file, matched, list, kept, listed>>

Remove(p) ==
  /\ dpc[p] = "rm"
  /\ tmp' = Put(file[p], None)
  /\ Exit(p)
  /\ UNCHANGED <<registry, image, listed>>

Killed(p) ==
  /\ dpc[p] # "idle"
  /\ Exit(p)
  /\ UNCHANGED <<registry, image, tmp, listed>>

(* Somebody pushes a tag or removes one.                                   *)
Publish ==
  /\ \E t \in Tags : registry' \in {registry \cup {t}, registry \ {t}}
  /\ UNCHANGED <<image, tmp, locals, listed>>

DeployNext ==
  \/ \E p \in Deployers :
       MkTemp(p) \/ ListTags(p) \/ SetImage(p) \/ ShowTags(p) \/ Remove(p) \/ Killed(p)
  \/ Publish

(* firstboot.sh leaves it to somebody to start minikube: they do so, and   *)
(* deploy, when it is done.                                                *)
HostInit == BootInit /\ DeployInit
HostNext == \/ BootNext /\ UNCHANGED deployVars
            \/ done /\ DeployNext /\ UNCHANGED bootVars
HostSpec == HostInit /\ [][HostNext]_<<bootVars, deployVars>>

-----------------------------------------------------------------------------

(* The cluster is only ever told to run a tag that grep has found in a     *)
(* listed one, though not that is listed, or that is still there.          *)
OnlyListedRuns == image # None => \E t \in listed : <<image, t>> \in Matches

(* Whatever others deploy at the same time, the tags shown to one whose    *)
(* tag was not found are among those that were searched for it, all of them*)
(* if its file could be made and took them all.                            *)
ShowsOwnList ==
  \A p \in Deployers :
    said[p] # None =>
      /\ said[p] \subseteq list[p] /\ (kept[p] => said[p] = list[p])
      /\ \A t \in said[p] : <<arg[p], t>> \notin Matches
=============================================================================
