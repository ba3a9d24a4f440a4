---------------------------- MODULE Deploy_proofs -----------------------------
(***************************************************************************)
(* Proofs about FirstBoot and Deploy.  A host marked as done is installed, *)
(* wherever earlier runs stopped.  For any number of deployments, tags and *)
(* temporary files, what the cluster is told to run was found in a listed  *)
(* tag, and a deployment shows of the list that was searched for it.       *)
(***************************************************************************)
EXTENDS Deploy, TLAPS

Lists == (SUBSET Tags) \cup {None}

Types ==
  /\ registry \subseteq Tags /\ listed \subseteq Tags
  /\ tmp \in [Files -> Lists]
  /\ dpc \in [Deployers -> {"idle", "list", "act", "rm"}]
  /\ arg \in [Deployers -> Args \cup {None}]
  /\ file \in [Deployers -> Files \cup {None}]
  /\ matched \in [Deployers -> BOOLEAN]
  /\ said \in [Deployers -> Lists]
  /\ list \in [Deployers -> SUBSET Tags]
  /\ kept \in [Deployers -> BOOLEAN]

(* Who runs has a file of its own, which is there, or none.                *)
OwnFiles ==
  /\ \A p \in Deployers : dpc[p] # "idle" =>
       arg[p] \in Args /\ (file[p] \in Files => tmp[file[p]] # None)
  /\ \A p, q \in Deployers :
       p # q /\ dpc[p] # "idle" /\ dpc[q] # "idle" => file[p] # file[q] \/ file[p] = None

(* What the file of a deployment holds of a list.                          *)
Holds(f, whole, l) == Contents(f) \subseteq l /\ (whole => Contents(f) = l)

(* Behind the pipeline the file holds of what was searched.                *)
Searched ==
  \A p \in Deployers : dpc[p] \in {"act", "rm"} =>
    /\ Holds(file[p], kept[p], list[p])
    /\ list[p] \subseteq listed
    /\ matched[p] <=> Status(arg[p], list[p])

Said == \A p \in Deployers : said[p] # None =>
          dpc[p] = "rm" /\ ~matched[p] /\ said[p] = Contents(file[p])

IInv == Types /\ OwnFiles /\ Searched /\ Said /\ OnlyListedRuns

LEMMA InitInv == HostInit => IInv
BY DEF HostInit, DeployInit, IInv, Types, Lists, OwnFiles, Searched, Said, OnlyListedRuns

(* Writing to one file changes no other.                                   *)
LEMMA PutIs ==
  ASSUME Types, NEW f \in Files \cup {None}, NEW c \in Lists, tmp' = Put(f, c)
  PROVE  /\ tmp' \in [Files -> Lists]
         /\ f \in Files => tmp'[f] = c
         /\ \A g \in Files \cup {None} : g # f \/ f = None =>
              Contents(g)' = Contents(g) /\ (g \in Files => tmp'[g] = tmp[g])
BY DeployAssumption DEF Types, Put, Contents

(* The pipeline touches the file of its own deployment only.               *)
LEMMA ListTagsInv ==
  ASSUME IInv, NEW p \in Deployers, ListTags(p)
  PROVE  IInv'
<1> USE DeployAssumption DEF IInv
<1>1. PICK tags \in Printed :
        /\ list' = [list EXCEPT ![p] = tags]
        /\ listed' = listed \cup tags
        /\ \E part \in SUBSET tags :
             /\ tmp' = Put(file[p], part)
             /\ kept' = [kept EXCEPT ![p] = file[p] # None /\ part = tags]
        /\ matched' = [matched EXCEPT ![p] = Status(arg[p], tags)]
  BY DEF ListTags
<1>2. PICK part \in SUBSET tags :
        /\ tmp' = Put(file[p], part)
        /\ kept' = [kept EXCEPT ![p] = file[p] # None /\ part = tags]
  BY <1>1
<1>3. /\ dpc[p] = "list" /\ dpc' = [dpc EXCEPT ![p] = "act"]
      /\ UNCHANGED <<registry, image, arg, file, said>>
      /\ tags \subseteq Tags /\ part \in Lists /\ part # None
  BY <1>1, <1>2 DEF ListTags, Goto, Printed, Types, Lists
<1>4. /\ tmp' \in [Files -> Lists] /\ (file[p] \in Files => tmp'[file[p]] = part)
      /\ \A q \in Deployers : q # p /\ dpc[q] # "idle" =>
           /\ Contents(file[q])' = Contents(file[q])
           /\ file[q] \in Files => tmp'[file[q]] = tmp[file[q]]
  <2>1. file \in [Deployers -> Files \cup {None}] /\ Types
    BY DEF Types
  <2>2. \A q \in Deployers : q # p /\ dpc[q] # "idle" => file[q] # file[p] \/ file[p] = None
    BY <1>3 DEF OwnFiles
  <2> QED
    BY <1>2, <1>3, <2>1, <2>2, PutIs DEF Contents
<1>5. Types'
  BY <1>1, <1>2, <1>3, <1>4 DEF Types, Lists, Status
<1>6. OwnFiles' /\ Searched'
  <2>1. OwnFiles'
    BY <1>3, <1>4 DEF Types, OwnFiles
  <2>2. ASSUME NEW q \in Deployers, dpc'[q] \in {"act", "rm"}
        PROVE  /\ Holds(file[q], kept[q], list[q])'
               /\ list'[q] \subseteq listed'
               /\ matched'[q] <=> Status(arg'[q], list'[q])
    <3>1. CASE q = p
      <4>1. list'[p] = tags /\ matched'[p] = Status(arg[p], tags) /\ arg' = arg /\ file' = file
        BY <1>1, <1>3 DEF Types
      <4>2. kept'[p] = (file[p] # None /\ part = tags) /\ (file[p] = None \/ file[p] \in Files)
        BY <1>2 DEF Types
      <4>3. Contents(file[p])' = IF file[p] \in Files THEN part ELSE {}
        BY <1>3, <1>4 DEF Contents
      <4>4. Holds(file[p], kept[p], list[p])'
        BY <4>1, <4>2, <4>3 DEF Holds
      <4> QED
        BY <1>1, <3>1, <4>1, <4>4
    <3>2. CASE q # p
      <4>1. dpc[q] \in {"act", "rm"}
        BY <2>2, <3>2, <1>3 DEF Types
      <4>2. /\ Contents(file[q])' = Contents(file[q]) /\ list'[q] = list[q]
            /\ kept'[q] = kept[q] /\ matched'[q] = matched[q] /\ arg' = arg
        BY <3>2, <4>1, <1>1, <1>2, <1>3, <1>4 DEF Types
      <4> QED
        BY <4>1, <4>2, <1>1 DEF Searched, Holds
    <3> QED
      BY <3>1, <3>2
  <2> QED
    BY <2>1, <2>2 DEF Searched, Status
<1>7. Said'
  <2>1. ASSUME NEW q \in Deployers, said'[q] # None
        PROVE  dpc'[q] = "rm" /\ ~matched'[q] /\ said'[q] = Contents(file[q])'
    <3>1. dpc[q] = "rm" /\ ~matched[q] /\ said[q] = Contents(file[q]) /\ q # p
      BY <1>3, <2>1 DEF Said
    <3> QED
      BY <1>1, <1>3, <1>4, <3>1 DEF Types
  <2> QED
    BY <2>1 DEF Said
<1>8. OnlyListedRuns'
  BY <1>1, <1>3 DEF OnlyListedRuns
<1> QED
  BY <1>5, <1>6, <1>7, <1>8

(* A new file is nobody's.                                                 *)
LEMMA MkTempInv ==
  ASSUME IInv, NEW p \in Deployers, MkTemp(p)
  PROVE  IInv'
<1> USE DeployAssumption DEF IInv
<1>1. PICK f \in NewFile \cup {None} :
        /\ tmp' = Put(f, {})
        /\ \/ /\ \E a \in Args : arg' = [arg EXCEPT ![p] = a]
              /\ file' = [file EXCEPT ![p] = f]
              /\ dpc' = [dpc EXCEPT ![p] = "list"] /\ UNCHANGED <<matched, said, list, kept>>
           \/ UNCHANGED locals
  BY DEF MkTemp, Goto
<1>2. f \in Files \cup {None} /\ (f \in Files => tmp[f] = None) /\ {} \in Lists /\ {} # None
  BY DEF NewFile, Lists
<1>3. dpc[p] = "idle" /\ UNCHANGED <<registry, image, listed>>
  BY DEF MkTemp
<1>4. \A q \in Deployers : dpc[q] # "idle" => file[q] # f \/ f = None
  BY <1>2 DEF OwnFiles
<1>5. /\ tmp' \in [Files -> Lists] /\ (f \in Files => tmp'[f] = {})
      /\ \A g \in Files \cup {None} : g # f \/ f = None =>
           Contents(g)' = Contents(g) /\ (g \in Files => tmp'[g] = tmp[g])
  BY <1>1, <1>2, PutIs
<1>6. \A q \in Deployers : dpc[q] # "idle" =>
        /\ Contents(file[q])' = Contents(file[q]) /\ q # p
        /\ file[q] \in Files => tmp'[file[q]] = tmp[file[q]]
        /\ dpc'[q] = dpc[q] /\ file'[q] = file[q] /\ arg'[q] = arg[q]
  <2>1. \A q \in Deployers : file[q] \in Files \cup {None}
    BY DEF Types
  <2>2. \A q \in Deployers : q # p => dpc'[q] = dpc[q] /\ file'[q] = file[q] /\ arg'[q] = arg[q]
    BY <1>1 DEF Types, locals
  <2>3. ASSUME NEW q \in Deployers, dpc[q] # "idle"
        PROVE  /\ Contents(file[q])' = Contents(file[q]) /\ q # p
               /\ file[q] \in Files => tmp'[file[q]] = tmp[file[q]]
    <3>1. file'[q] = file[q] /\ q # p
      BY <1>3, <2>2, <2>3
    <3>2. file[q] # f \/ f = None
      BY <1>4, <2>3
    <3> QED
      BY <1>5, <2>1, <3>1, <3>2 DEF Contents
  <2> QED
    BY <2>2, <2>3, Zenon
<1>7. Types'
  BY <1>1, <1>2, <1>3, <1>5 DEF Types, locals
<1>8. OwnFiles'
  <2>1. CASE UNCHANGED locals
    BY <2>1, <1>6 DEF OwnFiles, locals
  <2>2. CASE ~UNCHANGED locals
    <3>1. dpc'[p] = "list" /\ file'[p] = f /\ arg'[p] \in Args
      BY <2>2, <1>1, <1>2 DEF Types
    <3>2. \A q \in Deployers \ {p} : dpc'[q] = dpc[q]
      BY <2>2, <1>1 DEF Types
    <3> QED
      BY <3>1, <3>2, <1>2, <1>4, <1>5, <1>6 DEF OwnFiles
  <2> QED
    BY <2>1, <2>2
<1>9. Searched'
  <2> SUFFICES ASSUME NEW q \in Deployers, dpc'[q] \in {"act", "rm"}
               PROVE  /\ Holds(file[q], kept[q], list[q])'
                      /\ list'[q] \subseteq listed'
                      /\ matched'[q] <=> Status(arg'[q], list'[q])
    BY DEF Searched, Status
  <2>1. dpc[q] \in {"act", "rm"} /\ dpc[q] # "idle"
    BY <1>1, <1>3 DEF Types, locals
  <2>2. list' = list /\ matched' = matched /\ kept' = kept
    BY <1>1 DEF locals
  <2> QED
    BY <2>1, <2>2, <1>3, <1>6 DEF Searched, Holds
<1>10. Said'
  <2>1. said' = said /\ matched' = matched
    BY <1>1 DEF locals
  <2> QED
    BY <2>1, <1>6 DEF Said
<1>11. OnlyListedRuns'
  BY <1>3 DEF OnlyListedRuns
<1> QED
  BY <1>7, <1>8, <1>9, <1>10, <1>11

(* Before it tells the cluster, a deployment has found its tag.            *)
LEMMA SetImageInv ==
  ASSUME IInv, NEW p \in Deployers, SetImage(p)
  PROVE  IInv'
<1> USE DeployAssumption DEF IInv
<1>1. dpc[p] = "act" /\ matched[p] /\ dpc' = [dpc EXCEPT ![p] = "rm"]
  BY DEF SetImage, Goto
<1>2. UNCHANGED <<registry, tmp, arg, file, matched, said, list, kept, listed>>
  BY DEF SetImage
<1>3. image' = image \/ image' = arg[p]
  BY DEF SetImage
<1>4. Types' /\ OwnFiles'
  BY <1>1, <1>2 DEF Types, OwnFiles
<1>5. Searched' /\ Said'
  BY <1>1, <1>2 DEF Types, Searched, Said, Status, Holds, Contents
<1>6. Status(arg[p], list[p]) /\ list[p] \subseteq listed
  BY <1>1 DEF Searched
<1>7. OnlyListedRuns'
  BY <1>2, <1>3, <1>6 DEF OnlyListedRuns, Status
<1> QED
  BY <1>4, <1>5, <1>7

LEMMA ShowTagsInv ==
  ASSUME IInv, NEW p \in Deployers, ShowTags(p)
  PROVE  IInv'
<1> USE DeployAssumption DEF IInv
<1>1. dpc[p] = "act" /\ ~matched[p] /\ dpc' = [dpc EXCEPT ![p] = "rm"]
      /\ said' = [said EXCEPT ![p] = Contents(file[p])]
  BY DEF ShowTags, Goto
<1>2. UNCHANGED <<registry, image, tmp, arg, file, matched, list, kept, listed>>
  BY DEF ShowTags
<1>3. Contents(file[p]) \in Lists /\ Contents(file[p])' = Contents(file[p])
  BY <1>2 DEF Types, Contents, Lists
<1>4. Types' /\ OwnFiles'
  BY <1>1, <1>2, <1>3 DEF Types, Lists, OwnFiles
<1>5. Searched'
  BY <1>1, <1>2 DEF Types, Searched, Status, Holds, Contents
<1>6. Said'
  BY <1>1, <1>2 DEF Types, Said, Contents
<1> QED
  BY <1>2, <1>4, <1>5, <1>6 DEF OnlyListedRuns

(* A deployment that ends has nothing any more; what it removes was its.   *)
LEMMA ExitInv ==
  ASSUME IInv, NEW p \in Deployers, Exit(p), dpc[p] # "idle",
         tmp' \in [Files -> Lists],
         \A f \in Files : f # file[p] => tmp'[f] = tmp[f],
         UNCHANGED <<registry, image, listed>>
  PROVE  IInv'
<1> USE DeployAssumption DEF IInv
<1>1. Types'
  BY DEF Types, Lists, Exit, Goto
<1>2. \A q \in Deployers : dpc'[q] # "idle" =>
        /\ q # p /\ dpc'[q] = dpc[q] /\ file'[q] = file[q] /\ arg'[q] = arg[q]
        /\ matched'[q] = matched[q] /\ list'[q] = list[q] /\ said'[q] = said[q]
        /\ kept'[q] = kept[q] /\ Contents(file[q])' = Contents(file[q])
        /\ file[q] \in Files => tmp'[file[q]] = tmp[file[q]]
  BY DEF Types, OwnFiles, Exit, Goto, Contents
<1>3. OwnFiles'
  BY <1>2 DEF OwnFiles
<1>4. Searched'
  <2> SUFFICES ASSUME NEW q \in Deployers, dpc'[q] \in {"act", "rm"}
               PROVE  /\ Holds(file[q], kept[q], list[q])'
                      /\ list'[q] \subseteq listed'
                      /\ matched'[q] <=> Status(arg'[q], list'[q])
    BY DEF Searched, Status
  <2>1. dpc'[q] # "idle" /\ dpc[q] \in {"act", "rm"}
    BY <1>2
  <2> QED
    BY <1>2, <2>1 DEF Searched, Holds
<1>5. Said'
  BY <1>2 DEF Types, Said, Exit, Goto
<1> QED
  BY <1>1, <1>3, <1>4, <1>5 DEF OnlyListedRuns

LEMMA StepInv == IInv /\ [HostNext]_<<bootVars, deployVars>> => IInv'
<1> SUFFICES ASSUME IInv, [HostNext]_<<bootVars, deployVars>> PROVE IInv'
  OBVIOUS
<1>1. CASE UNCHANGED deployVars
  BY <1>1 DEF IInv, deployVars, locals, Types, OwnFiles, Searched, Said, Status, Holds, Contents,
            OnlyListedRuns
<1>2. ASSUME NEW p \in Deployers, Remove(p) PROVE IInv'
  <2>1. tmp' \in [Files -> Lists] /\ \A f \in Files : f # file[p] => tmp'[f] = tmp[f]
    BY <1>2 DEF Remove, IInv, Types, Lists, Put
  <2>2. Exit(p) /\ dpc[p] # "idle" /\ UNCHANGED <<registry, image, listed>>
    BY <1>2 DEF Remove
  <2> QED
    BY <2>1, <2>2, ExitInv
<1>3. ASSUME NEW p \in Deployers, Killed(p) PROVE IInv'
  <2>1. tmp' \in [Files -> Lists] /\ \A f \in Files : f # file[p] => tmp'[f] = tmp[f]
    BY <1>3 DEF Killed, IInv, Types
  <2>2. Exit(p) /\ dpc[p] # "idle" /\ UNCHANGED <<registry, image, listed>>
    BY <1>3 DEF Killed
  <2> QED
    BY <2>1, <2>2, ExitInv
<1>4. CASE Publish
  <2>1. registry' \subseteq Tags
    BY <1>4 DEF Publish, IInv, Types
  <2>2. UNCHANGED <<image, tmp, locals, listed>>
    BY <1>4 DEF Publish
  <2> QED
    BY <2>1, <2>2 DEF IInv, locals, Types, OwnFiles, Searched, Said, Status, Holds, Contents,
            OnlyListedRuns
<1> QED
  BY <1>1, <1>2, <1>3, <1>4, MkTempInv, ListTagsInv, SetImageInv, ShowTagsInv
     DEF HostNext, DeployNext

THEOREM Invariance == HostSpec => []IInv
BY InitInv, StepInv, PTL DEF HostSpec

(* The cluster is only ever told to run what grep found in a listed tag,   *)
(* however many deployments run at once.                                   *)
THEOREM OnlyListed == HostSpec => []OnlyListedRuns
<1>1. IInv => OnlyListedRuns
  BY DEF IInv
<1> QED
  BY <1>1, Invariance, PTL

(* A deployment that does not find its tag shows of the tags that were     *)
(* searched for it, all that its file has taken, and of no other's list.   *)
THEOREM OwnListShown == HostSpec => []ShowsOwnList
<1>1. IInv => ShowsOwnList
  BY DEF IInv, Said, Searched, Status, Holds, ShowsOwnList
<1> QED
  BY <1>1, Invariance, PTL

-----------------------------------------------------------------------------
(* firstboot.sh.                                                           *)

(* What a run has behind it when it comes to its next command.             *)
Behind ==
  /\ pc \in Commands \cup {"off", "download", "chmod", "move", "mark"}
  /\ pc \notin {"off", "base"} => "base" \in have
  /\ pc \notin {"off", "base", "kube key"} => "kube key" \in have
  /\ pc \notin {"off", "base", "kube key", "kube list"} => "kube list" \in have
  /\ pc \in {"docker list", "index", "conntrack", "docker", "download", "chmod", "move", "mark"}
       => "docker key" \in have
  /\ pc \in {"index", "conntrack", "docker", "download", "chmod", "move", "mark"}
       => "docker list" \in have
  /\ pc \in {"docker", "download", "chmod", "move", "mark"} => "conntrack" \in have
  /\ pc \in {"download", "chmod", "move", "mark"} => {"index", "docker"} \subseteq have

(* Whatever lay about, behind a download that worked there is minikube.    *)
Loaded ==
  /\ home \in [content : {"none", "minikube", "page", "part"}, exec : BOOLEAN]
  /\ pc = "chmod" => home.content = fetched
  /\ pc = "move" /\ fetched = "minikube" => home = Minikube
  /\ pc = "mark" => bin # NoFile /\ (bin = Minikube \/ fetched # "minikube")

BootInv == Behind /\ Loaded /\ DoneMeansInstalled /\ (done => pc = "off")

LEMMA BootInitInv == BootInit => BootInv
BY DEF BootInit, BootInv, Behind, Loaded, DoneMeansInstalled, NoFile

LEMMA BootStepInv == BootInv /\ [BootNext]_bootVars => BootInv'
<1> SUFFICES ASSUME BootInv, [BootNext]_bootVars PROVE BootInv'
  OBVIOUS
<1> USE DEF BootInv
<1>1. CASE Start
  BY <1>1 DEF Start, Behind, Loaded, DoneMeansInstalled, Commands
<1>2. CASE Run
  <2>1. Behind'
    BY <1>2 DEF Run, Behind, Commands, Needs, Follows
  <2>2. pc' \in Commands \cup {"download"}
    BY <1>2 DEF Run, Commands, Follows
  <2>3. pc \in Commands /\ UNCHANGED <<home, bin, fetched, done>> /\ ~done
    BY <1>2 DEF Run, Commands
  <2> QED
    BY <2>1, <2>2, <2>3 DEF Loaded, DoneMeansInstalled, Commands
<1>3. CASE Ends
  BY <1>3 DEF Ends, Behind, Loaded, DoneMeansInstalled
<1>4. CASE Download
  <2>1. pc = "download" /\ pc' \in {"move", "off", "chmod"} /\ UNCHANGED <<have, bin, done>>
    BY <1>4 DEF Download
  <2>2. Loaded'
    BY <1>4, <2>1 DEF Download, Loaded
  <2>3. Behind'
    BY <2>1 DEF Behind
  <2> QED
    BY <2>1, <2>2, <2>3 DEF DoneMeansInstalled
<1>5. CASE Chmod
  BY <1>5 DEF Chmod, Behind, Loaded, DoneMeansInstalled, Minikube
<1>6. CASE Move
  BY <1>6 DEF Move, Behind, Loaded, DoneMeansInstalled, NoFile
<1>7. CASE Mark
  BY <1>7 DEF Mark, Behind, Loaded, DoneMeansInstalled, Commands
<1>8. CASE UNCHANGED bootVars
  BY <1>8, ZenonT(60) DEF bootVars, Behind, Loaded, DoneMeansInstalled
<1> QED
  BY <1>1, <1>2, <1>3, <1>4, <1>5, <1>6, <1>7, <1>8 DEF BootNext

(* However often firstboot.sh has failed or been cut off, and whoever      *)
(* deploys: a host it marks as done has everything, and a minikube that    *)
(* works unless the download of the last run failed.                       *)
THEOREM DoneIsInstalled == HostSpec => []DoneMeansInstalled
<1>1. HostInit => BootInv
  BY BootInitInv DEF HostInit
<1>2. BootInv /\ [HostNext]_<<bootVars, deployVars>> => BootInv'
  BY BootStepInv DEF HostNext
<1>3. BootInv => DoneMeansInstalled
  BY DEF BootInv
<1> QED
  BY <1>1, <1>2, <1>3, PTL DEF HostSpec
=============================================================================
