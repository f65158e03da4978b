------------------------------ MODULE AppSetup ------------------------------
(***************************************************************************)
(* How the installation gets its GitHub App, and what is done with the     *)
(* App's credentials.  The user opens /setup and has GitHub create an App; *)
(* GitHub sends the browser back with a code, the callback exchanges it    *)
(* for the credentials and stores them one after another.  Meanwhile the   *)
(* instance reads them, to verify a webhook and to sign as the App.        *)
(* kind "local" is the tool of cmd/setup, which stores them in two files.  *)
(***************************************************************************)
EXTENDS Naturals

CONSTANTS
    Apps,       \* the Apps that GitHub may be asked to create
    Callbacks,  \* requests to /setup/callback, and to /callback of the local tool
    None, Faults

\* client: the first creation of a client fails    call: a call to Google or GitHub fails
\* lostReply: it did what it was asked, and the caller sees a failure
\* crash: the process goes                         late: the user takes more than an hour
AllFaults == {"client", "call", "lostReply", "crash", "late"}

ASSUME SetupAssumption == Faults \subseteq AllFaults /\ None \notin Apps \cup Callbacks

VARIABLES
    kind,
    app,        \* what GitHub knows of each App
    late,       \* the Apps whose setup page is more than an hour old
    secret,     \* the latest version of each credential: the App it is of
    callback,   \* the requests
    last,       \* history: the callback that began to write last
    started,    \* history: the Apps whose credentials were given out
    smClient,   \* the Secret Manager client of the instance
    ctClient,   \* its Cloud Tasks client
    jwt,        \* the signing of a token
    nilUsed     \* history: the clients that were used without being there

vars == <<kind, app, late, secret, callback, last, started, smClient, ctClient, jwt, nilUsed>>

\* Where the credentials go.
Names == IF kind = "cloud" THEN {"app-id", "private-key", "webhook-secret"} ELSE {"env", "pem"}

AllNames == {"app-id", "private-key", "webhook-secret", "env", "pem"}

\* A client and the sync.Once before it.
NoClient == [done |-> FALSE, made |-> FALSE, err |-> FALSE]

NoCallback == [pc |-> "idle", app |-> None, todo |-> {}, alone |-> TRUE, lost |-> FALSE]

NoJWT == [pc |-> "idle", id |-> None, key |-> None, settled |-> FALSE, at |-> {}]

Init ==
    /\ kind \in {"cloud", "local"}
    /\ app = [a \in Apps |-> "none"]
    /\ late = {}
    /\ secret = [n \in AllNames |-> None]
    /\ callback = [c \in Callbacks |-> NoCallback]
    /\ last = None
    /\ started = {}
    /\ smClient = NoClient /\ ctClient = NoClient
    /\ jwt = NoJWT
    /\ nilUsed = {}

-----------------------------------------------------------------------------
(***************************************************************************)
(* The clients.                                                            *)
(***************************************************************************)

\* The first creation succeeds, or not.
Made == {TRUE} \cup (IF "client" \in Faults THEN {FALSE} ELSE {})

\* Broken variant: the error goes to the first caller only.
GetSecretManagerForgetful(client, err) ==
    IF smClient.done THEN client = smClient /\ err = FALSE
    ELSE \E m \in Made : client = [done |-> TRUE, made |-> m, err |-> ~m] /\ err = ~m

\* getSecretManagerClient: client is what is kept, err what this caller is told.
GetSecretManager(client, err) ==
    IF smClient.done THEN client = smClient /\ err = smClient.err
    ELSE \E m \in Made : client = [done |-> TRUE, made |-> m, err |-> ~m] /\ err = ~m

\* getCloudTasksClient: the error is not kept.
GetCloudTasks(client, err) ==
    IF ctClient.done THEN client = ctClient /\ err = FALSE
    ELSE \E m \in Made : client = [done |-> TRUE, made |-> m, err |-> FALSE] /\ err = ~m

\* A call through Secret Manager: it answers, or the caller sees a failure.
SecretManager(answered) ==
    \E err \in BOOLEAN :
        /\ GetSecretManager(smClient', err)
        /\ nilUsed' = nilUsed \cup (IF ~err /\ ~smClient'.made THEN {"secretmanager"} ELSE {})
        /\ answered \in (IF err \/ ~smClient'.made THEN {FALSE}
                         ELSE IF "call" \in Faults THEN BOOLEAN ELSE {TRUE})

-----------------------------------------------------------------------------
(***************************************************************************)
(* Setup.                                                                  *)
(***************************************************************************)

\* handleSetup: the page, with a state that is good for an hour.  The local tool asks
\* for no token.
OpenPage(a) ==
    /\ app[a] = "none"
    /\ \E answered \in BOOLEAN :
           /\ IF kind = "cloud" THEN SecretManager(answered)
              ELSE answered = TRUE /\ UNCHANGED <<smClient, nilUsed>>
           /\ app' = IF answered THEN [app EXCEPT ![a] = "page"] ELSE app
    /\ UNCHANGED <<kind, late, secret, callback, last, started, ctClient, jwt>>

CreateApp(a) ==
    /\ app[a] = "page"
    /\ app' = [app EXCEPT ![a] = "created"]
    /\ UNCHANGED <<kind, late, secret, callback, last, started, smClient, ctClient, jwt, nilUsed>>

Late(a) ==
    /\ "late" \in Faults
    /\ app[a] \in {"page", "created"}
    /\ late' = late \cup {a}
    /\ UNCHANGED <<kind, app, secret, callback, last, started, smClient, ctClient, jwt, nilUsed>>

\* The browser comes back, or the user reloads that page.
Redirect(c, a) ==
    /\ callback[c].pc \in {"idle", "saved", "error"} /\ c # last
    /\ app[a] \in {"created", "converted"}
    /\ callback' = [callback EXCEPT ![c] = [NoCallback EXCEPT !.pc = "verify", !.app = a]]
    /\ UNCHANGED <<kind, app, late, secret, last, started, smClient, ctClient, jwt, nilUsed>>

\* The state of the redirect is checked; the local tool has none.
Verify(c) ==
    /\ callback[c].pc = "verify"
    /\ \E answered \in BOOLEAN :
           /\ IF kind = "cloud" THEN SecretManager(answered)
              ELSE answered = TRUE /\ UNCHANGED <<smClient, nilUsed>>
           /\ callback' = [callback EXCEPT ![c].pc =
                  IF answered /\ (kind = "cloud" => callback[c].app \notin late) THEN "convert" ELSE "error"]
    /\ UNCHANGED <<kind, app, late, secret, last, started, ctClient, jwt>>

Writing == {c \in Callbacks : callback[c].pc = "write"}

\* GitHub gives the credentials out once.
Convert(c) ==
    /\ callback[c].pc = "convert"
    /\ app[callback[c].app] = "created"
    /\ app' = [app EXCEPT ![callback[c].app] = "converted"]
    /\ callback' = [d \in Callbacks |->
           IF d = c THEN [callback[c] EXCEPT !.pc = "write", !.todo = Names, !.alone = (Writing = {})]
           ELSE IF d \in Writing THEN [callback[d] EXCEPT !.alone = FALSE]
           ELSE callback[d]]
    /\ last' = c
    /\ started' = started \cup {callback[c].app}
    /\ UNCHANGED <<kind, late, secret, smClient, ctClient, jwt, nilUsed>>

\* GitHub refuses, cannot be reached, or is not heard.
ConvertFails(c) ==
    /\ callback[c].pc = "convert"
    /\ LET a == callback[c].app
       IN  \/ app[a] = "converted" /\ UNCHANGED app
           \/ "call" \in Faults /\ UNCHANGED app
           \/ "lostReply" \in Faults /\ app[a] = "created" /\ app' = [app EXCEPT ![a] = "converted"]
    /\ callback' = [callback EXCEPT ![c].pc = "error"]
    /\ UNCHANGED <<kind, late, secret, last, started, smClient, ctClient, jwt, nilUsed>>

\* What c writes next: any of the secrets, of the files .env and then the key.
NextNames(c) ==
    IF kind = "local" /\ "env" \in callback[c].todo THEN {"env"} ELSE callback[c].todo

\* One credential is done with; the page comes after the last.
Done(c, n, wrote) ==
    LET r == callback[c] IN
    callback' = [callback EXCEPT ![c] =
        [r EXCEPT !.todo = r.todo \ {n}, !.pc = IF r.todo = {n} THEN "saved" ELSE "write",
                  !.lost = r.lost \/ ~wrote]]

Write(c) ==
    /\ callback[c].pc = "write"
    /\ \E n \in NextNames(c) :
           secret' = [secret EXCEPT ![n] = callback[c].app] /\ Done(c, n, TRUE)
    /\ UNCHANGED <<kind, app, late, last, started, smClient, ctClient, jwt, nilUsed>>

\* Broken variant: a write that fails is only logged, as in the local tool.
WriteFailsLogged(c) ==
    /\ "call" \in Faults
    /\ callback[c].pc = "write"
    /\ \E n \in NextNames(c) : UNCHANGED secret /\ Done(c, n, kind = "cloud")
    /\ UNCHANGED <<kind, app, late, last, started, smClient, ctClient, jwt, nilUsed>>

\* The first secret that is not written, or not known to be, ends the callback; so
\* does the user who leaves the page.  The local tool logs it and goes on.
WriteFails(c) ==
    /\ "call" \in Faults
    /\ callback[c].pc = "write"
    /\ \E n \in NextNames(c) :
           /\ \/ UNCHANGED secret
              \/ "lostReply" \in Faults /\ secret' = [secret EXCEPT ![n] = callback[c].app]
           /\ IF kind = "cloud" THEN callback' = [callback EXCEPT ![c].pc = "error"]
              ELSE Done(c, n, FALSE)
    /\ UNCHANGED <<kind, app, late, last, started, smClient, ctClient, jwt, nilUsed>>

-----------------------------------------------------------------------------
(***************************************************************************)
(* What the credentials are for.                                           *)
(***************************************************************************)

\* The setup that began last is over, and no other was under way beside it.
Settled ==
    last # None /\ callback[last].pc = "saved" /\ callback[last].alone /\ ~callback[last].lost

\* generateAppJWT: the App's id is read, then its key.
ReadId ==
    /\ kind = "cloud" /\ jwt.pc = "idle"
    /\ \E answered \in BOOLEAN :
           /\ SecretManager(answered)
           /\ jwt' = IF answered /\ secret["app-id"] # None
                     THEN [NoJWT EXCEPT !.pc = "id", !.id = secret["app-id"],
                                        !.settled = Settled, !.at = started]
                     ELSE jwt
    /\ UNCHANGED <<kind, app, late, secret, callback, last, started, ctClient>>

ReadKey ==
    /\ jwt.pc = "id"
    /\ \E answered \in BOOLEAN :
           /\ SecretManager(answered)
           /\ jwt' = IF answered /\ secret["private-key"] # None
                     THEN [jwt EXCEPT !.pc = "signed", !.key = secret["private-key"]]
                     ELSE NoJWT
    /\ UNCHANGED <<kind, app, late, secret, callback, last, started, ctClient>>

Signed ==
    /\ jwt.pc = "signed"
    /\ jwt' = NoJWT
    /\ UNCHANGED <<kind, app, late, secret, callback, last, started, smClient, ctClient, nilUsed>>

\* handleWebhook, of App a: the secret that verifies it, then the client that its
\* task is created with.
Webhook(a) ==
    /\ kind = "cloud" /\ app[a] = "converted"
    /\ \E err \in BOOLEAN :
           /\ GetSecretManager(smClient', err)
           /\ \/ /\ ~err /\ smClient'.made /\ secret["webhook-secret"] = a
                 /\ \E taskErr \in BOOLEAN :
                        /\ GetCloudTasks(ctClient', taskErr)
                        /\ nilUsed' = nilUsed \cup
                              (IF ~taskErr /\ ~ctClient'.made THEN {"cloudtasks"} ELSE {})
              \/ /\ err \/ ~smClient'.made \/ secret["webhook-secret"] # a \/ "call" \in Faults
                 /\ nilUsed' = nilUsed \cup
                       (IF ~err /\ ~smClient'.made THEN {"secretmanager"} ELSE {})
                 /\ UNCHANGED ctClient
    /\ UNCHANGED <<kind, app, late, secret, callback, last, started, jwt>>

\* The process goes, and another takes its place.
Crash ==
    /\ "crash" \in Faults
    /\ callback' = [c \in Callbacks |->
           IF callback[c].pc \in {"verify", "convert", "write"} THEN [callback[c] EXCEPT !.pc = "error"]
           ELSE callback[c]]
    /\ smClient' = NoClient /\ ctClient' = NoClient
    /\ jwt' = NoJWT
    /\ UNCHANGED <<kind, app, late, secret, last, started, nilUsed>>

-----------------------------------------------------------------------------
Next ==
    \/ \E a \in Apps : OpenPage(a) \/ CreateApp(a) \/ Late(a) \/ Webhook(a)
    \/ \E c \in Callbacks : \/ \E a \in Apps : Redirect(c, a)
                            \/ Verify(c) \/ Convert(c) \/ ConvertFails(c) \/ Write(c) \/ WriteFails(c)
    \/ ReadId \/ ReadKey \/ Signed \/ Crash

Spec == Init /\ [][Next]_vars

-----------------------------------------------------------------------------
(***************************************************************************)
(* Properties.                                                             *)
(***************************************************************************)

Client == [done : BOOLEAN, made : BOOLEAN, err : BOOLEAN]

Request == [pc : {"idle", "verify", "convert", "write", "saved", "error"},
            app : Apps \cup {None}, todo : SUBSET AllNames, alone : BOOLEAN, lost : BOOLEAN]

\* The types of the variables.
TypeOK ==
    /\ kind \in {"cloud", "local"}
    /\ app \in [Apps -> {"none", "page", "created", "converted"}]
    /\ late \in SUBSET Apps
    /\ secret \in [AllNames -> Apps \cup {None}]
    /\ callback \in [Callbacks -> Request]
    /\ \A c \in Callbacks : callback[c].pc # "idle" => callback[c].app \in Apps
    /\ last \in Callbacks \cup {None}
    /\ started \in SUBSET Apps
    /\ smClient \in Client /\ ctClient \in Client
    /\ jwt \in [pc : {"idle", "id", "signed"}, id : Apps \cup {None}, key : Apps \cup {None},
                settled : BOOLEAN, at : SUBSET Apps]
    /\ nilUsed \in SUBSET {"secretmanager", "cloudtasks"}

\* "Credentials saved" is true: once the setup that began last has said so, and no
\* other was under way beside it, every credential is of its App, whatever failed
\* setups left behind (handleSetupCallback).
SavedIsWhole ==
    Settled => \A n \in Names : secret[n] = callback[last].app

\* A token is never signed with the key of another App than it names, unless a
\* setup was unfinished when its id was read or began before its key was
\* (generateAppJWT).
SignedWhole ==
    jwt.pc = "signed" /\ jwt.settled /\ jwt.at = started => jwt.id = jwt.key

\* A client that could not be created is not used: for Secret Manager never, for
\* Cloud Tasks only after its one creation in this process failed
\* (getSecretManagerClient: the first failure "used to leave a nil client behind").
NoNilClient ==
    [][\A s \in nilUsed' \ nilUsed : s = "cloudtasks" /\ ctClient.done /\ ~ctClient.made]_vars
=============================================================================
