---------------------------- MODULE CreateWizard ----------------------------
(* The create-container wizard (src/model/create_container_controller.cpp,   *)
(* ui/CreateContainer.qml) over the lists of the backend, down to the checks *)
(* of OperationController::createContainer().  The wizard validates the step *)
(* it shows; the summary relies on the steps before it, while the lists go   *)
(* on changing.                                                              *)
EXTENDS HostPortUsage

CONSTANTS Images,           \* image references
          Names,            \* names that may be typed or suggested; those of listed containers are taken
          Destinations,     \* mount destinations
          TypedSteps,       \* steps of plain fields whose input may be invalid
          MaxRows           \* bound on the rows of a table

Empty == ""     \* of a field or of an error: there is no text

ASSUME NamesAssumption == Neighbours \subseteq Names /\ Empty \notin Names \cup Images \cup Destinations
ASSUME TypedAssumption == TypedSteps \subseteq {"environment", "resources"}
ASSUME RowsAssumption == MaxRows \in Nat \ {0}

VARIABLES open,     \* whether a wizard page is shown
          step,     \* m_stepIndex
          image, pullIfMissing, name, portRows, mountRows,  \* the form
          invalid,  \* the plain steps whose input is not valid
          local,    \* the images in the image list
          busy      \* a create request has been sent and not answered

formVars == <<image, pullIfMissing, name, portRows, mountRows, invalid>>
listVars == <<listed, local>>
vars == <<open, step, formVars, listVars, busy>>

StepKeys == <<"image", "basics", "environment", "interactive", "ports", "mounts", "resources", "summary">>
OnStep(key) == open /\ StepKeys[step] = key
-----------------------------------------------------------------------------
ImageExistsLocally(i) == i \in local
ContainerNameTaken(n) == n \in Existing(listed)

(* portRowStatus(): the other rows of the request go before the list.        *)
OtherPorts(rows, i) == {rows[j].port : j \in DOMAIN rows \ {i}} \ {0}
DuplicateRow(rows, i) ==
    \E j \in DOMAIN rows \ {i} : rows[j].port = rows[i].port /\ HostBindingsOverlap(rows[j].ip, rows[i].ip)
PortRowError(rows, i) ==
    CASE rows[i].port = 0 -> Empty
      [] rows[i].port # 0 /\ DuplicateRow(rows, i) -> "portDuplicateInRequest"
      [] rows[i].port # 0 /\ ~DuplicateRow(rows, i) ->
            IF HolderFor(listed, rows[i].ip, rows[i].port) = NoHolder THEN Empty ELSE "portInUse"
(* Fault: the suggestion looks at the running containers only.               *)
SuggestionFromList(rows, i) ==
    IF PortRowError(rows, i) = Empty THEN 0 ELSE NextFreePort(listed, rows[i].port, {})
Suggestion(rows, i) ==
    IF PortRowError(rows, i) = Empty THEN 0 ELSE NextFreePort(listed, rows[i].port, OtherPorts(rows, i))

(* validateCurrentStep() for every step: whether the step has an error.      *)
StepIsValid(key) ==
    CASE key = "image"  -> image # Empty /\ (pullIfMissing \/ ImageExistsLocally(image))
      [] key = "basics" -> name # Empty /\ ~ContainerNameTaken(name)
      [] key = "ports"  -> \A i \in DOMAIN portRows : PortRowError(portRows, i) = Empty
      [] key = "mounts" -> Empty \notin ToSet(mountRows) /\ IsInjective(mountRows)
      [] OTHER          -> key \notin invalid

(* OperationController::createContainer(), which looks at the lists again.   *)
CreateAccepted ==
    /\ name # Empty /\ ~ContainerNameTaken(name)
    /\ image # Empty /\ (pullIfMissing \/ ImageExistsLocally(image))
    /\ \A i \in DOMAIN portRows : portRows[i].port # 0 =>
         HolderFor(listed, portRows[i].ip, portRows[i].port) = NoHolder
    /\ Empty \notin ToSet(mountRows)
    /\ ~busy
-----------------------------------------------------------------------------
Init ==
    /\ open = FALSE /\ step = 1 /\ busy = FALSE
    /\ image = Empty /\ pullIfMissing = FALSE /\ name = Empty /\ portRows = <<>> /\ mountRows = <<>> /\ invalid = {}
    /\ listed = [c \in Neighbours |-> Absent]
    /\ local = {}

(* reset(), when the page is pushed.                                         *)
Reset(i, n, rows) ==
    /\ open' = TRUE /\ step' = 1
    /\ image' = i /\ name' = n /\ portRows' = rows
    /\ pullIfMissing' = FALSE /\ mountRows' = <<>> /\ invalid' = {}

OpenPage(i) == ~open /\ Reset(i, Empty, <<>>) /\ UNCHANGED <<listVars, busy>>

(* prefillFromContainer(): what the container publishes becomes rows, both   *)
(* wildcards of a port included.                                             *)
CloneContainer(c, i, n) ==
    /\ ~open
    /\ c \in Existing(listed)
    /\ ~ContainerNameTaken(n)
    /\ Reset(i, n, SetToSeq(listed[c].published))
    /\ UNCHANGED <<listVars, busy>>

CancelPage == open /\ open' = FALSE /\ UNCHANGED <<step, formVars, listVars, busy>>

(* The setters of the form; the fields of a step are shown on it.            *)
EditImage(i, pull) ==
    /\ OnStep("image") /\ image' = i /\ pullIfMissing' = pull
    /\ UNCHANGED <<open, step, name, portRows, mountRows, invalid, listVars, busy>>

EditName(n) ==
    /\ OnStep("basics") /\ name' = n
    /\ UNCHANGED <<open, step, image, pullIfMissing, portRows, mountRows, invalid, listVars, busy>>

EditFields(key, ok) ==
    /\ OnStep(key) /\ invalid' = IF ok THEN invalid \ {key} ELSE invalid \cup {key}
    /\ UNCHANGED <<open, step, image, pullIfMissing, name, portRows, mountRows, listVars, busy>>

PortRowsEdited(rows) ==
    /\ OnStep("ports") /\ portRows' = rows
    /\ UNCHANGED <<open, step, image, pullIfMissing, name, mountRows, invalid, listVars, busy>>
AddPortRow == Len(portRows) < MaxRows /\ PortRowsEdited(Append(portRows, [port |-> 0, ip |-> Empty]))
SetPortRow(i, row) == PortRowsEdited([portRows EXCEPT ![i] = row])
RemovePortRow(i) == PortRowsEdited(RemoveAt(portRows, i))

MountRowsEdited(rows) ==
    /\ OnStep("mounts") /\ mountRows' = rows
    /\ UNCHANGED <<open, step, image, pullIfMissing, name, portRows, invalid, listVars, busy>>
AddMountRow == Len(mountRows) < MaxRows /\ MountRowsEdited(Append(mountRows, Empty))
(* A preset with the source and the destination of a row is refused; one with *)
(* its destination alone is added, and left to the check of the step.         *)
AddMountFromPreset(d) == Len(mountRows) < MaxRows /\ MountRowsEdited(Append(mountRows, d))
SetMountRow(i, d) == MountRowsEdited([mountRows EXCEPT ![i] = d])
RemoveMountRow(i) == MountRowsEdited(RemoveAt(mountRows, i))

(* Moving between the steps: forward over valid steps only.                  *)
MoveTo(target) == open /\ step' = target /\ UNCHANGED <<open, formVars, listVars, busy>>
NextStep == step < Len(StepKeys) /\ StepIsValid(StepKeys[step]) /\ MoveTo(step + 1)
PreviousStep == step > 1 /\ MoveTo(step - 1)

(* Fault: a jump looks at the step it leaves only.                           *)
GoToStepFromHere(target) ==
    /\ target # step
    /\ target > step => StepIsValid(StepKeys[step])
    /\ MoveTo(target)
GoToStep(target) ==
    /\ target # step
    /\ \A s \in step..target - 1 : StepIsValid(StepKeys[s])
    /\ MoveTo(target)

Submit ==
    /\ OnStep("summary")
    /\ StepIsValid("summary") /\ CreateAccepted
    /\ busy' = TRUE
    /\ UNCHANGED <<open, step, formVars, listVars>>

(* The create is answered; containerCreated() closes whatever wizard is open.*)
CreateAnswered(ok) ==
    /\ busy
    /\ busy' = FALSE
    /\ open' = (open /\ ~ok)
    /\ UNCHANGED <<step, formVars, listVars>>

(* A list arrives: other clients create, start, stop and remove things.      *)
ContainersArrive(c, listing) ==
    /\ listed' = [listed EXCEPT ![c] = listing]
    /\ UNCHANGED <<open, step, formVars, local, busy>>
ImagesArrive(S) == local' = S /\ UNCHANGED <<open, step, formVars, listed, busy>>

PortRow == [port : Ports \cup {0}, ip : Addresses \cup {Empty}]

Next ==
    \/ \E i \in Images \cup {Empty} : OpenPage(i)
    \/ \E c \in Neighbours, i \in Images, n \in Names : CloneContainer(c, i, n)
    \/ CancelPage
    \/ \E i \in Images \cup {Empty}, pull \in BOOLEAN : EditImage(i, pull)
    \/ \E n \in Names \cup {Empty} : EditName(n)
    \/ \E key \in TypedSteps, ok \in BOOLEAN : EditFields(key, ok)
    \/ AddPortRow
    \/ \E i \in DOMAIN portRows, row \in PortRow : SetPortRow(i, row)
    \/ \E i \in DOMAIN portRows : RemovePortRow(i)
    \/ AddMountRow
    \/ \E d \in Destinations : AddMountFromPreset(d)
    \/ \E i \in DOMAIN mountRows, d \in Destinations \cup {Empty} : SetMountRow(i, d)
    \/ \E i \in DOMAIN mountRows : RemoveMountRow(i)
    \/ NextStep \/ PreviousStep
    \/ \E target \in DOMAIN StepKeys : GoToStep(target)
    \/ Submit
    \/ \E ok \in BOOLEAN : CreateAnswered(ok)
    \/ \E c \in Neighbours, listing \in NeighbourListings : ContainersArrive(c, listing)
    \/ \E S \in SUBSET Images : ImagesArrive(S)

Spec == Init /\ [][Next]_vars
-----------------------------------------------------------------------------
(* Whatever way through the steps led to the summary, and whatever the lists *)
(* became in the meantime, a request that is sent names an available image   *)
(* and a free name, binds no host port twice or one that a running container *)
(* holds, mounts nothing twice, and has no invalid field.  Neither the steps *)
(* nor createContainer() check all of it.                                    *)
RequestIsSound ==
    [][~busy /\ busy' =>
        /\ image \in Images /\ (pullIfMissing \/ image \in local)
        /\ name \in Names \ Existing(listed)
        /\ \A i, j \in DOMAIN portRows : i # j /\ portRows[i].port = portRows[j].port /\ portRows[i].port # 0
              => ~HostBindingsOverlap(portRows[i].ip, portRows[j].ip)
        /\ \A c \in Holding(listed) : \A b \in listed[c].published, i \in DOMAIN portRows :
              b.port = portRows[i].port => ~HostBindingsOverlap(b.ip, portRows[i].ip)
        /\ ToSet(mountRows) \subseteq Destinations /\ IsInjective(mountRows)
        /\ invalid = {}]_vars

(* Taking the suggestion that a row with a conflict shows resolves it.       *)
SuggestionIsFree ==
    \A i \in DOMAIN portRows :
        Suggestion(portRows, i) # 0 =>
            PortRowError([portRows EXCEPT ![i].port = Suggestion(portRows, i)], i) = Empty
=============================================================================
