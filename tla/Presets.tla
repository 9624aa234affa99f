------------------------------- MODULE Presets -------------------------------
(***************************************************************************)
(* The saved positions of a PTZ camera.  They live in the owner's cloud    *)
(* account and are edited in the Aqara app; the preset select and the ptz  *)
(* service of the camera entity each keep a copy of the list, fetched once *)
(* and again when a name is missing from it.  A recall sends the camera    *)
(* the position stored in the copy.                                        *)
(***************************************************************************)
EXTENDS FiniteSets

CONSTANTS
    Names,      \* preset names
    Positions,  \* opaque position strings
    Recalls     \* concurrent calls

Nowhere == "nowhere"
Clients == {"select", "camera"}

VARIABLES
    cloud,      \* the account: the position of each name, or Nowhere
    copy,       \* what each client has of it
    fetched,    \* clients whose list was fetched
    current,    \* the select's current option
    call,       \* of each call: client, name, state, position, the list the cloud
                \* answers with, whether it is the camera's first, whether the
                \* account has had the name throughout, whether its fetch failed
    sent        \* the last recall sent to the camera: name and position

presetVars == <<cloud, copy, fetched, current, call, sent>>

CallStates == {"idle", "fetch", "answer", "recall", "refused", "failed"}
Lists == [Names -> Positions \cup {Nowhere}]
Empty == [n \in Names |-> Nowhere]
NoCall == [client |-> "select", name |-> Nowhere, state |-> "idle",
           position |-> Nowhere, list |-> Empty, first |-> FALSE,
           kept |-> FALSE, unread |-> FALSE]

PresetsTypeOK ==
    /\ cloud \in Lists
    /\ copy \in [Clients -> Lists]
    /\ fetched \subseteq Clients
    /\ current \in Names \cup {Nowhere}
    /\ \A c \in Recalls : call[c].state \in CallStates

PresetsInit ==
    /\ cloud \in Lists
    /\ copy = [k \in Clients |-> Empty]
    /\ fetched = {}
    /\ current = Nowhere
    /\ call = [c \in Recalls |-> NoCall]
    /\ sent = <<Nowhere, Nowhere>>

\* The owner adds, moves or deletes a preset.
Edit ==
    /\ \E n \in Names, p \in Positions \cup {Nowhere} :
        /\ cloud' = [cloud EXCEPT ![n] = p]
        /\ call' = [c \in Recalls |->
               [call[c] EXCEPT !.kept = @ /\ (call[c].name = n => p # Nowhere)]]
    /\ UNCHANGED <<copy, fetched, current, sent>>

\* A client's copy becomes the list; the select keeps its option only if it is
\* still there.
Fetched(k, list) ==
    /\ copy' = [copy EXCEPT ![k] = list]
    /\ fetched' = fetched \cup {k}
    /\ current' = IF k = "select" /\ current # Nowhere /\ list[current] = Nowhere
                  THEN Nowhere ELSE current

\* The select fetches when it is added; a failure leaves it without options.
Add ==
    /\ "select" \notin fetched
    /\ \/ Fetched("select", cloud)
       \/ fetched' = fetched \cup {"select"} /\ UNCHANGED <<copy, current>>
    /\ UNCHANGED <<cloud, call, sent>>

\* A name is picked or given to the service: recalled from the copy if it is
\* there, fetched otherwise.  The service's first fetch does not count as the
\* one for a miss.
Begin(c, k, n) ==
    /\ call[c].state \in {"idle", "refused", "failed"}
    /\ k = "select" => k \in fetched
    /\ call' = [call EXCEPT ![c] =
           [client |-> k, name |-> n, position |-> copy[k][n],
            list |-> Empty, first |-> k = "camera" /\ k \notin fetched,
            kept |-> cloud[n] # Nowhere, unread |-> FALSE,
            state |-> IF copy[k][n] = Nowhere THEN "fetch" ELSE "recall"]]
    /\ UNCHANGED <<cloud, copy, fetched, current, sent>>

\* Mutation: the list is fetched for the first miss only.
M_Refetch(k) == k \notin fetched

\* A miss fetches, whether or not the list was fetched before.
Refetch(k) == TRUE

\* The cloud reads the account, and its answer arrives later, perhaps after one
\* to a later call.  A name that is still missing is refused, or, in the
\* camera's first list, fetched once more.
AfterFetch(p, first) ==
    IF p # Nowhere THEN "recall" ELSE IF first THEN "fetch" ELSE "refused"
CloudReads(c) ==
    /\ call[c].state = "fetch"
    /\ call' = [call EXCEPT ![c].state = "answer", ![c].list = cloud]
    /\ UNCHANGED <<cloud, copy, fetched, current, sent>>
CloudAnswers(c) ==
    LET k == call[c].client
        n == call[c].name
    IN  /\ call[c].state = "answer"
        /\ IF Refetch(k)
           THEN Fetched(k, call[c].list)
           ELSE UNCHANGED <<copy, fetched, current>>
        /\ call' = [call EXCEPT ![c].position = copy'[k][n],
                                ![c].list = Empty, ![c].first = FALSE,
                                ![c].state = AfterFetch(copy'[k][n], call[c].first)]
        /\ UNCHANGED <<cloud, sent>>

\* A cloud that fails, or is not configured, leaves the copy as it is.  The
\* service fails with it; the select swallows the failure and looks again, so a
\* name that is still missing is refused as if it were unknown.
CloudFails(c) ==
    /\ call[c].state = "fetch"
    /\ LET p == copy[call[c].client][call[c].name]
       IN  call' = [call EXCEPT ![c].position = p, ![c].unread = TRUE,
               ![c].state = IF call[c].client = "camera" THEN "failed"
                            ELSE AfterFetch(p, FALSE)]
    /\ UNCHANGED <<cloud, copy, fetched, current, sent>>

\* The controller sends the position, or fails; the select then shows the name.
Recall(c) ==
    /\ call[c].state = "recall"
    /\ \/ /\ sent' = <<call[c].name, call[c].position>>
          /\ current' = IF call[c].client = "select" THEN call[c].name ELSE current
       \/ UNCHANGED <<sent, current>>
    /\ call' = [call EXCEPT ![c] = NoCall]
    /\ UNCHANGED <<cloud, copy, fetched>>

PresetsNext ==
    \/ Edit \/ Add
    \/ \E c \in Recalls :
           \/ \E k \in Clients, n \in Names : Begin(c, k, n)
           \/ CloudReads(c) \/ CloudAnswers(c) \/ CloudFails(c) \/ Recall(c)

PresetsSpec == PresetsInit /\ [][PresetsNext]_presetVars

-----------------------------------------------------------------------------
(* Properties *)

\* A preset the account has is recallable without a reload: a call is refused
\* for an unknown name only if the account lacked it at some time of the call,
\* whatever the copies held and in whatever order the cloud's answers arrived,
\* or if it is a call of the select whose fetch failed (select.py:114-118,
\* 140-160, 168-179; camera.py:249-275).
KnownIsRecallable ==
    \A c \in Recalls : call[c].state = "refused" =>
        ~call[c].kept \/ (call[c].client = "select" /\ call[c].unread)

\* Not so: what is refused as unknown is unknown; the select refuses with the
\* same KeyError a name it could not look up (select.py:146-151, 175-176).
RefusedWasRead ==
    \A c \in Recalls : call[c].state = "refused" => ~call[c].kept

\* Not so: a recall goes where the account says; a preset that was moved under
\* its name is recalled at the position of the copy (select.py:170).
RecallIsCurrent ==
    [][\A c \in Recalls :
         Recall(c) /\ sent' # sent => sent'[2] = cloud[call[c].name]]_presetVars

\* Not so: the current option is one of the options; a recall that ends after a
\* refresh dropped its name sets it again (select.py:157-179).
CurrentIsAnOption ==
    current # Nowhere => copy["select"][current] # Nowhere
=============================================================================
