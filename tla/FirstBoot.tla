------------------------------ MODULE FirstBoot ------------------------------
(***************************************************************************)
(* debian-minikube-libvirt/firstboot.sh, run under "set -o errexit" by     *)
(* cloud-init and again by hand.  A step is a command; between any two the *)
(* machine may be switched off.                                            *)
(***************************************************************************)
VARIABLES
  pc,       \* the command that is next; "off": the script does not run
  have,     \* what apt has been given
  home,     \* /root/minikube
  bin,      \* /usr/local/bin/minikube
  fetched,  \* history: how the download of this run, or the last, ended
  done      \* /root/firstboot.done

bootVars == <<pc, have, home, bin, fetched, done>>

NoFile == [content |-> "none", exec |-> FALSE]
Minikube == [content |-> "minikube", exec |-> TRUE]

BootInit ==
  /\ pc = "off" /\ have = {} /\ done = FALSE
  /\ home = NoFile /\ bin = NoFile /\ fetched = "nothing"

(* The commands up to the download.  Key and list: of a repository.        *)
Commands == {"base", "kube key", "kube list", "docker key", "docker list",
             "index", "conntrack", "docker"}

Needs(c) == CASE c \in {"kube key", "docker key"} -> {"base"}
              [] c = "index"  -> {"kube key", "docker key"}
              [] c = "docker" -> {"index"}
              [] OTHER        -> {}

Follows(c) == CASE c = "base"        -> "kube key"
                [] c = "kube key"    -> "kube list"
                [] c = "kube list"   -> "docker key"
                [] c = "docker key"  -> "docker list"
                [] c = "docker list" -> "index"
                [] c = "index"       -> "conntrack"
                [] c = "conntrack"   -> "docker"
                [] c = "docker"      -> "download"

(* The first test: once done, the script does nothing.                     *)
Start ==
  /\ pc = "off" /\ ~done
  /\ pc' = "base"
  /\ UNCHANGED <<have, home, bin, fetched, done>>

(* Slip: without errexit a command that fails is passed over.              *)
Run_NoErrexit ==
  /\ pc \in Commands
  /\ have' \in {have, have \cup {pc}}
  /\ pc' = Follows(pc)
  /\ UNCHANGED <<home, bin, fetched, done>>

(* A command that works.  apt-get update also reports success when it      *)
(* could not fetch and keeps the index it had.                             *)
Run ==
  /\ pc \in Commands /\ Needs(pc) \subseteq have
  /\ \/ have' = have \cup {pc}
     \/ pc = "index" /\ have' = have
  /\ pc' = Follows(pc)
  /\ UNCHANGED <<home, bin, fetched, done>>

(* A command fails and errexit ends the script, or the machine goes off.   *)
Ends ==
  /\ pc # "off"
  /\ pc' = "off"
  /\ UNCHANGED <<have, home, bin, fetched, done>>

(* Slip: what is there is not loaded again.                                *)
Download_KeepsOld ==
  /\ pc = "download"
  /\ IF home # NoFile THEN home' = home /\ fetched' = "minikube"
     ELSE \/ fetched' \in {"minikube", "page", "part"} /\ home' = [home EXCEPT !.content = fetched']
          \/ fetched' = "nothing" /\ home' = home
  /\ pc' \in CASE fetched' = "part" -> {"move", "off"}
               [] fetched' = "nothing" -> {"move"}
               [] OTHER -> {"chmod"}
  /\ UNCHANGED <<have, bin, done>>

(* "curl && chmod": where curl fails, errexit does not see it and the next *)
(* command is mv.  Without -f an error page is a success.  The file that   *)
(* an earlier run has left is written over and keeps its mode.             *)
Download ==
  /\ pc = "download"
  /\ \/ /\ fetched' \in {"minikube", "page", "part"}
        /\ home' = [home EXCEPT !.content = fetched']
     \/ fetched' = "nothing" /\ home' = home
  /\ pc' \in CASE fetched' = "part" -> {"move", "off"}
               [] fetched' = "nothing" -> {"move"}
               [] OTHER -> {"chmod"}
  /\ UNCHANGED <<have, bin, done>>

Chmod ==
  /\ pc = "chmod"
  /\ home' = [home EXCEPT !.exec = TRUE]
  /\ pc' = "move"
  /\ UNCHANGED <<have, bin, fetched, done>>

Move ==
  /\ pc = "move" /\ home # NoFile
  /\ bin' = home /\ home' = NoFile
  /\ pc' = "mark"
  /\ UNCHANGED <<have, fetched, done>>

Mark ==
  /\ pc = "mark"
  /\ done' = TRUE
  /\ pc' = "off"
  /\ UNCHANGED <<have, home, bin, fetched>>

BootNext == Start \/ Run \/ Ends \/ Download \/ Chmod \/ Move \/ Mark

BootSpec == BootInit /\ [][BootNext]_bootVars

-----------------------------------------------------------------------------

(* Wherever earlier runs have stopped, a host that is marked as done has   *)
(* every package, and some file as minikube.  That file is minikube and    *)
(* can be run, unless the download of the run that marked the host failed: *)
(* no rest of an earlier run gets in its way.                              *)
DoneMeansInstalled ==
  done => /\ Commands \subseteq have /\ bin # NoFile
          /\ bin = Minikube \/ fetched # "minikube"
=============================================================================
