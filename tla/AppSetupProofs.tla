--------------------------- MODULE AppSetupProofs ---------------------------
(***************************************************************************)
(* What "credentials saved" and a signed token rest on, and that no client *)
(* is used that could not be made, for any number of Apps and callbacks.   *)
(***************************************************************************)
EXTENDS AppSetup, TLAPS

\* The setup that began last, from its first write on, when no other was under
\* way beside it and every credential it is done with was written.
Clean ==
    /\ last # None
    /\ callback[last].pc \in {"write", "saved"}
    /\ callback[last].alone /\ ~callback[last].lost

\* It writes alone, and what it is done with is of its App.
CleanWrites ==
    Clean =>
        /\ \A c \in Writing : c = last
        /\ callback[last].pc = "saved" => callback[last].todo = {}
        /\ \A n \in Names \ callback[last].todo : secret[n] = callback[last].app

\* The Apps whose credentials were given out; GitHub gives them out once.
GivenOut ==
    /\ \A a \in started : app[a] = "converted"
    /\ jwt.at \subseteq started

\* While no setup began since the App's id was read, the secrets are those of
\* the setup that was over then.
JwtHolds ==
    (jwt.pc # "idle" /\ jwt.settled /\ jwt.at = started) =>
        /\ Settled
        /\ kind = "cloud"
        /\ jwt.id = callback[last].app
        /\ jwt.pc = "signed" => jwt.key = callback[last].app

\* The error of the first creation is kept.
ErrorKept == smClient.done /\ ~smClient.made => smClient.err

\* What a step may add to the clients that were used without being there.
NilExplained ==
    \A s \in nilUsed' \ nilUsed : s = "cloudtasks" /\ ctClient.done /\ ~ctClient.made

\* The inductive invariant.  SavedIsWhole follows from what holds while the
\* setup still writes, SignedWhole from what held when the id was read.
IInv == TypeOK /\ CleanWrites /\ GivenOut /\ JwtHolds /\ ErrorKept

-----------------------------------------------------------------------------
\* Settled is Clean when the page has been shown.
LEMMA SettledIsClean == Settled <=> Clean /\ callback[last].pc = "saved"
  BY DEF Settled, Clean

\* The initial states satisfy the invariant.
LEMMA InitInvariant == Init => IInv
  <1> SUFFICES ASSUME Init PROVE IInv
    OBVIOUS
  <1>1. TypeOK
    BY DEF Init, TypeOK, Request, NoCallback, NoJWT, NoClient, Client
  <1>2. CleanWrites /\ GivenOut /\ JwtHolds /\ ErrorKept
    BY DEF Init, CleanWrites, Clean, GivenOut, JwtHolds, ErrorKept, NoJWT, NoClient
  <1>3. QED
    BY <1>1, <1>2 DEF IInv

\* What the creation of a client leaves: a client that remembers its error.
LEMMA ClientMade ==
    ASSUME TypeOK, ErrorKept, NEW err, GetSecretManager(smClient', err)
    PROVE  /\ smClient' \in Client
           /\ ErrorKept'
           /\ err \in BOOLEAN
           /\ smClient'.done
           /\ ~err => smClient'.made
  <1>1. CASE smClient.done
    <2>1. smClient' = smClient /\ err = smClient.err
      BY <1>1 DEF GetSecretManager
    <2>2. smClient \in Client
      BY DEF TypeOK
    <2>3. smClient.err \in BOOLEAN /\ (smClient.made \/ smClient.err)
      BY <1>1, <2>2 DEF Client, ErrorKept
    <2>4. QED
      BY <1>1, <2>1, <2>2, <2>3 DEF ErrorKept
  <1>2. CASE ~smClient.done
    <2>1. PICK m \in BOOLEAN : smClient' = [done |-> TRUE, made |-> m, err |-> ~m] /\ err = ~m
      BY <1>2 DEF GetSecretManager, Made
    <2>2. smClient'.done /\ smClient'.made = m /\ smClient'.err = ~m /\ smClient' \in Client
      BY <2>1 DEF Client
    <2>3. QED
      BY <2>1, <2>2 DEF ErrorKept
  <1>3. QED
    BY <1>1, <1>2

\* A call through Secret Manager never finds a nil client.
LEMMA CallMade ==
    ASSUME TypeOK, ErrorKept, NEW answered, SecretManager(answered)
    PROVE  /\ smClient' \in Client
           /\ ErrorKept'
           /\ nilUsed' = nilUsed
           /\ answered \in BOOLEAN
  <1>1. PICK err \in BOOLEAN :
            /\ GetSecretManager(smClient', err)
            /\ nilUsed' = nilUsed \cup (IF ~err /\ ~smClient'.made THEN {"secretmanager"} ELSE {})
            /\ answered \in (IF err \/ ~smClient'.made THEN {FALSE}
                             ELSE IF "call" \in Faults THEN BOOLEAN ELSE {TRUE})
    BY DEF SecretManager
  <1>2. /\ smClient' \in Client
        /\ ErrorKept'
        /\ ~err => smClient'.made
    BY <1>1, ClientMade
  <1>3. QED
    BY <1>1, <1>2

\* The client of Cloud Tasks does not remember its error.
LEMMA CloudTasksMade ==
    ASSUME TypeOK, NEW err, GetCloudTasks(ctClient', err)
    PROVE  ctClient' \in Client
  <1>1. CASE ctClient.done
    BY <1>1 DEF GetCloudTasks, TypeOK
  <1>2. CASE ~ctClient.done
    <2>1. PICK m \in BOOLEAN : ctClient' = [done |-> TRUE, made |-> m, err |-> FALSE]
      BY <1>2 DEF GetCloudTasks, Made
    <2>2. QED
      BY <2>1 DEF Client
  <1>3. QED
    BY <1>1, <1>2

\* It is nil without an error only when its creation failed before.
LEMMA NilOfCloudTasks ==
    ASSUME NEW err, GetCloudTasks(ctClient', err), ~err, ~ctClient'.made
    PROVE  ctClient.done /\ ~ctClient.made
  <1>1. CASE ~ctClient.done
    <2>1. PICK m \in BOOLEAN : ctClient' = [done |-> TRUE, made |-> m, err |-> FALSE] /\ err = ~m
      BY <1>1 DEF GetCloudTasks, Made
    <2>2. QED
      BY <2>1
  <1>2. CASE ctClient.done
    BY <1>2 DEF GetCloudTasks
  <1>3. QED
    BY <1>1, <1>2

\* A step that leaves the setups, the secrets and the signing alone.
LEMMA SetupUntouched ==
    ASSUME IInv,
           kind' = kind, secret' = secret, last' = last, started' = started,
           callback' = callback, jwt' = jwt,
           \A a \in Apps : app[a] = "converted" => app'[a] = "converted"
    PROVE  CleanWrites' /\ GivenOut' /\ JwtHolds'
  <1>1. CleanWrites'
    BY DEF IInv, CleanWrites, Clean, Writing, Names
  <1>2. GivenOut'
    BY DEF IInv, TypeOK, GivenOut
  <1>3. JwtHolds'
    BY DEF IInv, JwtHolds, Settled
  <1>4. QED
    BY <1>1, <1>2, <1>3

\* A callback that is not the one that began last, and does not write after the
\* step, or that stops being one that counts.
LEMMA OtherCallback ==
    ASSUME IInv, NEW c \in Callbacks, NEW pc \in {"verify", "convert", "error"},
           kind' = kind, secret' = secret, last' = last, started' = started, jwt' = jwt,
           \A a \in Apps : app[a] = "converted" => app'[a] = "converted",
           callback'[c].pc = pc,
           \A d \in Callbacks \ {c} : callback'[d] = callback[d],
           callback[c].pc = "saved" => c # last
    PROVE  CleanWrites' /\ GivenOut' /\ JwtHolds'
  <1>1. CleanWrites'
    <2> SUFFICES ASSUME Clean' PROVE CleanWrites'
      BY DEF CleanWrites
    <2>1. last # c /\ last \in Callbacks \ {c}
      BY DEF IInv, TypeOK, Clean
    <2>2. Clean /\ callback'[last] = callback[last]
      BY <2>1 DEF Clean
    <2>3. Writing' \subseteq Writing
      BY DEF Writing
    <2>4. QED
      BY <2>2, <2>3 DEF IInv, CleanWrites, Names
  <1>2. GivenOut'
    BY DEF IInv, TypeOK, GivenOut
  <1>3. JwtHolds'
    <2> SUFFICES ASSUME Settled PROVE Settled' /\ callback'[last] = callback[last]
      BY DEF IInv, JwtHolds
    <2>1. last \in Callbacks \ {c}
      BY SetupAssumption DEF IInv, TypeOK, Settled
    <2>2. QED
      BY <2>1 DEF Settled
  <1>4. QED
    BY <1>1, <1>2, <1>3

\* The steps of OpenPage, CreateApp, Late and Webhook.
LEMMA AppSteps ==
    ASSUME IInv, NEW a \in Apps, OpenPage(a) \/ CreateApp(a) \/ Late(a) \/ Webhook(a)
    PROVE  IInv' /\ NilExplained
  <1>1. TypeOK /\ ErrorKept
    BY DEF IInv
  <1>2. CASE OpenPage(a)
    <2>1. PICK answered \in BOOLEAN :
              /\ IF kind = "cloud" THEN SecretManager(answered)
                 ELSE answered = TRUE /\ UNCHANGED <<smClient, nilUsed>>
              /\ app' = IF answered THEN [app EXCEPT ![a] = "page"] ELSE app
      BY <1>2 DEF OpenPage
    <2>2. smClient' \in Client /\ ErrorKept' /\ nilUsed' = nilUsed
      BY <1>1, <2>1, CallMade DEF TypeOK, ErrorKept
    <2>3. TypeOK'
      BY <1>1, <1>2, <2>1, <2>2 DEF OpenPage, TypeOK
    <2>4. \A b \in Apps : app[b] = "converted" => app'[b] = "converted"
      BY <1>1, <1>2, <2>1 DEF OpenPage, TypeOK
    <2>5. QED
      BY <1>2, <2>2, <2>3, <2>4, SetupUntouched DEF OpenPage, IInv, NilExplained
  <1>3. CASE CreateApp(a)
    <2>1. TypeOK'
      BY <1>1, <1>3 DEF CreateApp, TypeOK
    <2>2. \A b \in Apps : app[b] = "converted" => app'[b] = "converted"
      BY <1>1, <1>3 DEF CreateApp, TypeOK
    <2>3. QED
      BY <1>1, <1>3, <2>1, <2>2, SetupUntouched DEF CreateApp, IInv, ErrorKept, NilExplained
  <1>4. CASE Late(a)
    <2>1. TypeOK'
      BY <1>1, <1>4 DEF Late, TypeOK
    <2>2. QED
      BY <1>1, <1>4, <2>1, SetupUntouched DEF Late, IInv, ErrorKept, NilExplained
  <1>5. CASE Webhook(a)
    <2>1. PICK err \in BOOLEAN :
              /\ GetSecretManager(smClient', err)
              /\ \/ \E taskErr \in BOOLEAN :
                        /\ GetCloudTasks(ctClient', taskErr)
                        /\ nilUsed' = nilUsed \cup
                              (IF ~taskErr /\ ~ctClient'.made THEN {"cloudtasks"} ELSE {})
                 \/ /\ nilUsed' = nilUsed \cup
                          (IF ~err /\ ~smClient'.made THEN {"secretmanager"} ELSE {})
                    /\ UNCHANGED ctClient
      BY <1>5 DEF Webhook
    <2>2. /\ smClient' \in Client
          /\ ErrorKept'
          /\ ~err => smClient'.made
      BY <1>1, <2>1, ClientMade
    <2>3. ASSUME NEW taskErr \in BOOLEAN,
                 GetCloudTasks(ctClient', taskErr),
                 nilUsed' = nilUsed \cup
                     (IF ~taskErr /\ ~ctClient'.made THEN {"cloudtasks"} ELSE {})
          PROVE  /\ ctClient' \in Client
                 /\ nilUsed' \subseteq nilUsed \cup {"cloudtasks"}
                 /\ NilExplained
      <3>1. ctClient' \in Client
        BY <1>1, <2>3, CloudTasksMade
      <3>2. ~taskErr /\ ~ctClient'.made => ctClient.done /\ ~ctClient.made
        BY <2>3, NilOfCloudTasks
      <3>3. QED
        BY <2>3, <3>1, <3>2 DEF NilExplained
    <2>4. /\ ctClient' \in Client
          /\ nilUsed' \subseteq nilUsed \cup {"cloudtasks"}
          /\ NilExplained
      <3>1. CASE \E taskErr \in BOOLEAN :
                     /\ GetCloudTasks(ctClient', taskErr)
                     /\ nilUsed' = nilUsed \cup
                           (IF ~taskErr /\ ~ctClient'.made THEN {"cloudtasks"} ELSE {})
        BY <3>1, <2>3
      <3>2. CASE UNCHANGED ctClient /\ nilUsed' = nilUsed \cup
                    (IF ~err /\ ~smClient'.made THEN {"secretmanager"} ELSE {})
        <4>1. nilUsed' = nilUsed /\ ctClient' = ctClient
          BY <2>2, <3>2
        <4>2. QED
          BY <1>1, <4>1 DEF NilExplained, TypeOK
      <3>3. QED
        BY <2>1, <3>1, <3>2
    <2>5. TypeOK'
      BY <1>1, <1>5, <2>2, <2>4 DEF Webhook, TypeOK
    <2>6. QED
      BY <1>5, <2>2, <2>4, <2>5, SetupUntouched DEF Webhook, IInv
  <1>6. QED
    BY <1>2, <1>3, <1>4, <1>5

\* A callback before it writes.
LEMMA BeforeWrites ==
    ASSUME IInv, NEW c \in Callbacks,
           (\E a \in Apps : Redirect(c, a)) \/ Verify(c) \/ ConvertFails(c)
    PROVE  IInv' /\ nilUsed' = nilUsed
  <1>1. TypeOK /\ ErrorKept
    BY DEF IInv
  <1>2. ASSUME NEW a \in Apps, Redirect(c, a) PROVE IInv' /\ nilUsed' = nilUsed
    <2>1. callback' = [callback EXCEPT ![c] = [NoCallback EXCEPT !.pc = "verify", !.app = a]]
      BY <1>2 DEF Redirect
    <2>2. TypeOK'
      BY <1>1, <1>2 DEF Redirect, TypeOK, Request, NoCallback
    <2>3. callback'[c].pc = "verify" /\ \A d \in Callbacks \ {c} : callback'[d] = callback[d]
      BY <1>1, <2>1 DEF TypeOK, NoCallback
    <2>4. CleanWrites' /\ GivenOut' /\ JwtHolds'
      BY <1>2, <2>3, OtherCallback DEF Redirect
    <2>5. QED
      BY <1>1, <1>2, <2>2, <2>4 DEF Redirect, IInv, ErrorKept
  <1>3. CASE Verify(c)
    <2>1. PICK answered \in BOOLEAN, pc \in {"convert", "error"} :
              /\ IF kind = "cloud" THEN SecretManager(answered)
                 ELSE answered = TRUE /\ UNCHANGED <<smClient, nilUsed>>
              /\ callback' = [callback EXCEPT ![c].pc = pc]
      BY <1>3 DEF Verify
    <2>2. smClient' \in Client /\ ErrorKept' /\ nilUsed' = nilUsed
      BY <1>1, <2>1, CallMade DEF TypeOK, ErrorKept
    <2>3. TypeOK'
      BY <1>1, <1>3, <2>1, <2>2 DEF Verify, TypeOK, Request
    <2>4. callback'[c].pc = pc /\ \A d \in Callbacks \ {c} : callback'[d] = callback[d]
      BY <1>1, <2>1 DEF TypeOK
    <2>5. CleanWrites' /\ GivenOut' /\ JwtHolds'
      BY <1>3, <2>4, OtherCallback DEF Verify
    <2>6. QED
      BY <2>2, <2>3, <2>5 DEF IInv
  <1>4. CASE ConvertFails(c)
    <2>1. TypeOK'
      BY <1>1, <1>4 DEF ConvertFails, TypeOK, Request
    <2>2. callback' = [callback EXCEPT ![c].pc = "error"] /\ callback[c].pc = "convert"
      BY <1>4 DEF ConvertFails
    <2>3. callback'[c].pc = "error" /\ \A d \in Callbacks \ {c} : callback'[d] = callback[d]
      BY <1>1, <2>2 DEF TypeOK
    <2>4. \A b \in Apps : app[b] = "converted" => app'[b] = "converted"
      BY <1>1, <1>4 DEF ConvertFails, TypeOK
    <2>5. CleanWrites' /\ GivenOut' /\ JwtHolds'
      BY <1>4, <2>2, <2>3, <2>4, OtherCallback DEF ConvertFails
    <2>6. QED
      BY <1>1, <1>4, <2>1, <2>5 DEF ConvertFails, IInv, ErrorKept
  <1>5. QED
    BY <1>2, <1>3, <1>4

\* A callback starts to write: it is the one that began last.
LEMMA ConvertInvariant ==
    ASSUME IInv, NEW c \in Callbacks, Convert(c)
    PROVE  IInv' /\ nilUsed' = nilUsed
  <1> DEFINE a == callback[c].app
  <1>1. TypeOK /\ a \in Apps /\ app[a] = "created" /\ callback[c].pc = "convert"
    BY DEF IInv, TypeOK, Convert
  <1>2. callback'[c] = [callback[c] EXCEPT !.pc = "write", !.todo = Names, !.alone = (Writing = {})]
    BY <1>1 DEF Convert, TypeOK
  <1>3. \A d \in Callbacks : /\ callback'[d].app = callback[d].app
                             /\ d # c => callback'[d].pc = callback[d].pc
                             /\ callback'[d] \in Request
    <2> TAKE d \in Callbacks
    <2>1. callback[d] \in Request /\ Names \in SUBSET AllNames
      BY <1>1 DEF TypeOK, Names, AllNames
    <2>2. callback'[d] = IF d = c THEN [callback[c] EXCEPT !.pc = "write", !.todo = Names, !.alone = (Writing = {})]
                         ELSE IF d \in Writing THEN [callback[d] EXCEPT !.alone = FALSE]
                         ELSE callback[d]
      BY DEF Convert
    <2>3. CASE d = c
      <3> DEFINE alone == Writing = {}
      <3>1. alone \in BOOLEAN
        OBVIOUS
      <3>2. callback'[d] = [callback[d] EXCEPT !.pc = "write", !.todo = Names, !.alone = alone]
        BY <2>2, <2>3
      <3> HIDE DEF alone
      <3>3. QED
        BY <2>1, <2>3, <3>1, <3>2 DEF Request
    <2>4. CASE d # c /\ d \in Writing
      BY <2>1, <2>2, <2>4 DEF Request
    <2>5. CASE d # c /\ d \notin Writing
      BY <2>1, <2>2, <2>5
    <2>6. QED
      BY <2>3, <2>4, <2>5
  <1>4. TypeOK'
    <2>1. callback' = [d \in Callbacks |-> callback'[d]]
      BY DEF Convert
    <2>2. callback' \in [Callbacks -> Request]
      BY <1>3, <2>1
    <2>3. \A d \in Callbacks : callback'[d].pc # "idle" => callback'[d].app \in Apps
      BY <1>1, <1>3 DEF TypeOK
    <2>4. app' \in [Apps -> {"none", "page", "created", "converted"}]
      BY <1>1 DEF Convert, TypeOK
    <2>5. QED
      BY <1>1, <2>2, <2>3, <2>4 DEF Convert, TypeOK
  <1>5. CleanWrites'
    <2> SUFFICES ASSUME Clean' PROVE CleanWrites'
      BY DEF CleanWrites
    <2>1. last' = c /\ Names' = Names
      BY DEF Convert, Names
    <2>2. callback[c] \in Request
      BY <1>1 DEF TypeOK
    <2>3. callback'[c].pc = "write" /\ callback'[c].todo = Names /\ (callback'[c].alone <=> Writing = {})
      BY <1>2, <2>2 DEF Request
    <2>4. Writing = {}
      BY <2>1, <2>3 DEF Clean
    <2>5. \A d \in Writing' : d = c
      BY <1>3, <2>4 DEF Writing
    <2>6. QED
      BY <2>1, <2>3, <2>5 DEF CleanWrites
  <1>6. GivenOut'
    <2>1. app' = [app EXCEPT ![a] = "converted"] /\ started' = started \cup {a} /\ jwt' = jwt
      BY DEF Convert
    <2>2. started \subseteq Apps /\ app \in [Apps -> {"none", "page", "created", "converted"}]
      BY <1>1 DEF TypeOK
    <2>3. QED
      BY <1>1, <2>1, <2>2 DEF IInv, GivenOut
  <1>7. JwtHolds'
    <2>1. a \notin started /\ a \in started' /\ jwt' = jwt
      BY <1>1 DEF IInv, GivenOut, Convert
    <2>2. jwt.at # started'
      BY <2>1 DEF IInv, GivenOut
    <2>3. QED
      BY <2>1, <2>2 DEF JwtHolds
  <1>8. QED
    BY <1>4, <1>5, <1>6, <1>7 DEF IInv, ErrorKept, Convert

\* While c writes, either it is the setup that began last or none is clean, and
\* no setup is settled that a token could rest on.
LEMMA WriterIsLast ==
    ASSUME IInv, NEW c \in Callbacks, callback[c].pc = "write"
    PROVE  (Clean => c = last) /\ ~Settled
  <1>1. c \in Writing
    BY DEF Writing
  <1>2. Clean => c = last
    BY <1>1 DEF IInv, CleanWrites
  <1>3. QED
    BY <1>2, SettledIsClean

\* One credential is done with.
LEMMA DoneStep ==
    ASSUME TypeOK, NEW c \in Callbacks, NEW n \in NextNames(c), NEW wrote \in BOOLEAN,
           callback[c].pc = "write", Done(c, n, wrote)
    PROVE  /\ callback'[c].todo = callback[c].todo \ {n}
           /\ callback'[c].pc = "saved" => callback'[c].todo = {}
           /\ callback'[c].pc \in {"write", "saved"}
           /\ callback'[c].lost <=> callback[c].lost \/ ~wrote
           /\ callback'[c].alone = callback[c].alone
           /\ callback'[c].app = callback[c].app
           /\ \A d \in Callbacks \ {c} : callback'[d] = callback[d]
           /\ n \in AllNames
           /\ callback' \in [Callbacks -> Request]
  <1> DEFINE pc == IF callback[c].todo = {n} THEN "saved" ELSE "write"
             lost == callback[c].lost \/ ~wrote
  <1>1. callback[c] \in Request /\ callback \in [Callbacks -> Request]
    BY DEF TypeOK
  <1>2. n \in AllNames /\ n \in callback[c].todo
    BY <1>1 DEF NextNames, Request
  <1>3. pc \in {"saved", "write"} /\ lost \in BOOLEAN /\ (pc = "saved" => callback[c].todo = {n})
    OBVIOUS
  <1>4. callback' = [callback EXCEPT ![c] = [callback[c] EXCEPT !.todo = callback[c].todo \ {n},
                                                                !.pc = pc, !.lost = lost]]
    BY <1>1 DEF Done
  <1> HIDE DEF pc
  <1>5. callback'[c] = [callback[c] EXCEPT !.todo = callback[c].todo \ {n}, !.pc = pc, !.lost = lost]
    BY <1>1, <1>4
  <1>6. callback'[c] \in Request
    <2> HIDE DEF lost
    <2>1. QED
      BY <1>1, <1>3, <1>5 DEF Request
  <1>7. callback' \in [Callbacks -> Request] /\ \A d \in Callbacks \ {c} : callback'[d] = callback[d]
    <2> HIDE DEF lost
    <2>1. QED
      BY <1>1, <1>4, <1>5, <1>6
  <1>8. QED
    BY <1>1, <1>2, <1>3, <1>5, <1>7 DEF Request

\* A credential is written, or not.
LEMMA WriteInvariant ==
    ASSUME IInv, NEW c \in Callbacks, Write(c) \/ WriteFails(c)
    PROVE  IInv' /\ nilUsed' = nilUsed
  <1>1. /\ TypeOK /\ callback[c].pc = "write"
        /\ kind' = kind /\ app' = app /\ last' = last /\ started' = started /\ jwt' = jwt
        /\ smClient' = smClient /\ nilUsed' = nilUsed
    BY DEF IInv, Write, WriteFails
  <1>2. (Clean => c = last) /\ ~Settled
    BY <1>1, WriterIsLast
  <1>3. GivenOut'
    BY <1>1 DEF IInv, GivenOut
  <1>4. JwtHolds'
    BY <1>1, <1>2 DEF IInv, JwtHolds
  <1>5. ErrorKept'
    BY <1>1 DEF IInv, ErrorKept
  <1>6. CASE Write(c)
    <2>1. PICK n \in NextNames(c) :
              secret' = [secret EXCEPT ![n] = callback[c].app] /\ Done(c, n, TRUE)
      BY <1>6 DEF Write
    <2>2. /\ callback'[c].todo = callback[c].todo \ {n}
          /\ callback'[c].pc = "saved" => callback'[c].todo = {}
          /\ callback'[c].pc \in {"write", "saved"}
          /\ ~callback'[c].lost => ~callback[c].lost
          /\ callback'[c].alone = callback[c].alone
          /\ callback'[c].app = callback[c].app
          /\ \A d \in Callbacks \ {c} : callback'[d] = callback[d]
          /\ n \in AllNames
      BY <1>1, <2>1, DoneStep DEF TypeOK
    <2>3. TypeOK'
      BY <1>1, <1>6, <2>1, <2>2, DoneStep DEF TypeOK, Write
    <2>4. CleanWrites'
      <3> SUFFICES ASSUME Clean' PROVE CleanWrites'
        BY DEF CleanWrites
      <3>1. last \in Callbacks /\ Clean
        BY <1>1, <2>2 DEF TypeOK, Clean
      <3>2. c = last
        BY <1>2, <3>1
      <3>3. Writing' \subseteq Writing
        BY <1>1, <2>2 DEF Writing
      <3>4. Names' = Names /\ Names \subseteq AllNames
        BY <1>1 DEF Names, AllNames
      <3>5. \A m \in Names \ callback'[c].todo : secret'[m] = callback'[c].app
        BY <1>1, <2>1, <2>2, <3>1, <3>2, <3>4 DEF IInv, TypeOK, CleanWrites
      <3>6. QED
        BY <1>1, <2>2, <3>1, <3>2, <3>3, <3>4, <3>5 DEF IInv, CleanWrites
    <2>5. QED
      BY <1>1, <1>3, <1>4, <1>5, <2>3, <2>4 DEF IInv
  <1>7. CASE WriteFails(c)
    <2>1. PICK n \in NextNames(c) :
              /\ \/ UNCHANGED secret
                 \/ secret' = [secret EXCEPT ![n] = callback[c].app]
              /\ IF kind = "cloud" THEN callback' = [callback EXCEPT ![c].pc = "error"]
                 ELSE Done(c, n, FALSE)
      BY <1>7 DEF WriteFails
    <2>2. n \in AllNames
      <3>1. callback[c].todo \in SUBSET AllNames
        BY <1>1 DEF TypeOK, Request
      <3>2. QED
        BY <2>1, <3>1 DEF NextNames
    <2>3. /\ callback'[c].pc = "error" \/ callback'[c].lost
          /\ \A d \in Callbacks \ {c} : callback'[d] = callback[d]
          /\ \A d \in Callbacks : callback'[d].app = callback[d].app
          /\ callback' \in [Callbacks -> Request]
      <3>1. CASE kind = "cloud"
        BY <1>1, <2>1, <3>1 DEF TypeOK, Request
      <3>2. CASE kind # "cloud"
        <4>1. Done(c, n, FALSE)
          BY <2>1, <3>2
        <4>2. /\ callback'[c].lost
              /\ callback'[c].app = callback[c].app
              /\ \A d \in Callbacks \ {c} : callback'[d] = callback[d]
              /\ callback' \in [Callbacks -> Request]
          BY <1>1, <2>1, <4>1, DoneStep
        <4>3. QED
          BY <4>2
      <3>3. QED
        BY <3>1, <3>2
    <2>4. TypeOK'
      BY <1>1, <1>7, <2>1, <2>2, <2>3 DEF TypeOK, WriteFails
    <2>5. CleanWrites'
      <3> SUFFICES ASSUME Clean' PROVE FALSE
        BY DEF CleanWrites
      <3>1. last \in Callbacks \ {c} /\ Clean
        BY <1>1, <2>3 DEF TypeOK, Clean
      <3>2. QED
        BY <1>2, <3>1
    <2>6. QED
      BY <1>1, <1>3, <1>4, <1>5, <2>4, <2>5 DEF IInv
  <1>8. QED
    BY <1>6, <1>7

\* A token is signed: the id is read when the setup is over, the key while no
\* other began.
LEMMA SigningInvariant ==
    ASSUME IInv, ReadId \/ ReadKey \/ Signed
    PROVE  IInv' /\ nilUsed' = nilUsed
  <1>1. /\ TypeOK /\ ErrorKept
        /\ kind' = kind /\ app' = app /\ secret' = secret /\ last' = last
        /\ started' = started /\ callback' = callback
    BY DEF IInv, ReadId, ReadKey, Signed
  <1>2. CleanWrites'
    BY <1>1 DEF IInv, CleanWrites, Clean, Writing, Names
  <1>3. Settled' = Settled
    BY <1>1 DEF Settled
  <1>4. Settled /\ kind = "cloud" =>
            secret["app-id"] = callback[last].app /\ secret["private-key"] = callback[last].app
    BY SettledIsClean DEF IInv, CleanWrites, Names
  <1>5. CASE ReadId
    <2>1. PICK answered \in BOOLEAN :
              /\ SecretManager(answered)
              /\ jwt' = IF answered /\ secret["app-id"] # None
                        THEN [NoJWT EXCEPT !.pc = "id", !.id = secret["app-id"],
                                           !.settled = Settled, !.at = started]
                        ELSE jwt
      BY <1>5 DEF ReadId
    <2>2. smClient' \in Client /\ ErrorKept' /\ nilUsed' = nilUsed
      BY <1>1, <2>1, CallMade
    <2>3. CASE jwt' = jwt
      <3>1. TypeOK'
        BY <1>1, <1>5, <2>2, <2>3 DEF ReadId, TypeOK
      <3>2. QED
        BY <1>1, <1>2, <1>3, <2>2, <2>3, <3>1 DEF IInv, GivenOut, JwtHolds
    <2>4. CASE jwt' # jwt
      <3> DEFINE settled == Settled
      <3>1. jwt' = [NoJWT EXCEPT !.pc = "id", !.id = secret["app-id"], !.settled = settled, !.at = started]
        BY <2>1, <2>4
      <3>2. settled \in BOOLEAN /\ started \in SUBSET Apps /\ secret["app-id"] \in Apps \cup {None}
        BY <1>1 DEF TypeOK, Settled, AllNames
      <3> HIDE DEF settled
      <3>3. /\ jwt'.pc = "id" /\ jwt'.id = secret["app-id"] /\ (jwt'.settled <=> settled) /\ jwt'.at = started
            /\ jwt' \in [pc : {"idle", "id", "signed"}, id : Apps \cup {None}, key : Apps \cup {None},
                         settled : BOOLEAN, at : SUBSET Apps]
        BY <3>1, <3>2 DEF NoJWT
      <3>4. TypeOK'
        BY <1>1, <1>5, <2>2, <3>3 DEF ReadId, TypeOK
      <3>5. GivenOut'
        BY <1>1, <3>3 DEF IInv, GivenOut
      <3>6. JwtHolds'
        BY <1>1, <1>3, <1>4, <1>5, <3>3 DEF JwtHolds, ReadId, settled
      <3>7. QED
        BY <1>2, <2>2, <3>4, <3>5, <3>6 DEF IInv
    <2>5. QED
      BY <2>3, <2>4
  <1>6. CASE ReadKey
    <2>1. PICK answered \in BOOLEAN :
              /\ SecretManager(answered)
              /\ jwt' = IF answered /\ secret["private-key"] # None
                        THEN [jwt EXCEPT !.pc = "signed", !.key = secret["private-key"]]
                        ELSE NoJWT
      BY <1>6 DEF ReadKey
    <2>2. smClient' \in Client /\ ErrorKept' /\ nilUsed' = nilUsed
      BY <1>1, <2>1, CallMade
    <2>3. secret["private-key"] \in Apps \cup {None} /\ jwt.pc = "id"
      BY <1>1, <1>6 DEF TypeOK, AllNames, ReadKey
    <2>4. TypeOK'
      BY <1>1, <1>6, <2>1, <2>2, <2>3 DEF ReadKey, TypeOK, NoJWT
    <2>5. GivenOut'
      BY <1>1, <2>1 DEF IInv, GivenOut, TypeOK, NoJWT
    <2>6. JwtHolds'
      <3>1. CASE jwt' = NoJWT
        BY <3>1 DEF JwtHolds, NoJWT
      <3>2. CASE jwt' # NoJWT
        <4>1. /\ jwt'.pc = "signed" /\ jwt'.key = secret["private-key"] /\ jwt'.id = jwt.id
              /\ jwt'.settled = jwt.settled /\ jwt'.at = jwt.at
          BY <1>1, <2>1, <3>2 DEF TypeOK
        <4>2. QED
          BY <1>1, <1>3, <1>4, <2>3, <4>1 DEF IInv, JwtHolds
      <3>3. QED
        BY <3>1, <3>2
    <2>7. QED
      BY <1>2, <2>2, <2>4, <2>5, <2>6 DEF IInv
  <1>7. CASE Signed
    <2>1. TypeOK'
      BY <1>1, <1>7 DEF Signed, TypeOK, NoJWT
    <2>2. GivenOut' /\ JwtHolds' /\ ErrorKept'
      BY <1>1, <1>7 DEF Signed, IInv, GivenOut, JwtHolds, ErrorKept, NoJWT
    <2>3. QED
      BY <1>2, <1>7, <2>1, <2>2 DEF IInv, Signed
  <1>8. QED
    BY <1>5, <1>6, <1>7

\* The process goes: setups that were not over are given up, the clients and
\* the token forgotten.
LEMMA CrashInvariant ==
    ASSUME IInv, Crash
    PROVE  IInv' /\ nilUsed' = nilUsed
  <1>1. TypeOK
    BY DEF IInv
  <1>2. \A d \in Callbacks :
            /\ callback'[d] = callback[d] \/ callback'[d] = [callback[d] EXCEPT !.pc = "error"]
            /\ callback'[d].pc # "write"
    BY <1>1 DEF Crash, TypeOK, Request
  <1>3. \A d \in Callbacks :
            /\ callback'[d] \in Request
            /\ callback'[d].app = callback[d].app
            /\ callback'[d].pc # "error" => callback'[d] = callback[d]
            /\ callback'[d].pc = "error" => callback[d].pc # "idle"
    BY <1>1 DEF Crash, TypeOK, Request
  <1>4. TypeOK'
    <2>1. callback' = [d \in Callbacks |-> callback'[d]]
      BY DEF Crash
    <2>2. callback' \in [Callbacks -> Request]
      BY <1>3, <2>1
    <2>3. \A d \in Callbacks : callback'[d].pc # "idle" => callback'[d].app \in Apps
      BY <1>1, <1>3 DEF TypeOK
    <2>4. QED
      BY <1>1, <2>2, <2>3 DEF Crash, TypeOK, NoClient, NoJWT, Client
  <1>5. CleanWrites'
    <2> SUFFICES ASSUME Clean' PROVE CleanWrites'
      BY DEF CleanWrites
    <2>1. last' = last /\ secret' = secret /\ Names' = Names
      BY DEF Crash, Names
    <2>2. last \in Callbacks
      BY <1>1, <2>1 DEF TypeOK, Clean
    <2>3. callback'[last] = callback[last]
      BY <1>3, <2>1, <2>2 DEF Clean
    <2>4. Clean
      BY <2>1, <2>3 DEF Clean
    <2>5. Writing' = {}
      BY <1>2 DEF Writing
    <2>6. QED
      BY <2>1, <2>3, <2>4, <2>5 DEF IInv, CleanWrites
  <1>6. GivenOut' /\ JwtHolds' /\ ErrorKept'
    BY DEF Crash, IInv, GivenOut, JwtHolds, ErrorKept, NoJWT, NoClient
  <1>7. QED
    BY <1>4, <1>5, <1>6 DEF IInv, Crash

\* Every step keeps the invariant, and uses no client of Secret Manager that is
\* not there.
LEMMA StepInvariant ==
    ASSUME IInv, [Next]_vars
    PROVE  IInv' /\ NilExplained
  <1>1. ASSUME NEW a \in Apps, OpenPage(a) \/ CreateApp(a) \/ Late(a) \/ Webhook(a)
        PROVE  IInv' /\ NilExplained
    BY <1>1, AppSteps
  <1>2. ASSUME NEW c \in Callbacks, (\E a \in Apps : Redirect(c, a)) \/ Verify(c) \/ ConvertFails(c)
        PROVE  IInv' /\ nilUsed' = nilUsed
    BY <1>2, BeforeWrites
  <1>3. ASSUME NEW c \in Callbacks, Convert(c) PROVE IInv' /\ nilUsed' = nilUsed
    BY <1>3, ConvertInvariant
  <1>4. ASSUME NEW c \in Callbacks, Write(c) \/ WriteFails(c) PROVE IInv' /\ nilUsed' = nilUsed
    BY <1>4, WriteInvariant
  <1>5. CASE ReadId \/ ReadKey \/ Signed
    BY <1>5, SigningInvariant DEF NilExplained
  <1>6. CASE Crash
    BY <1>6, CrashInvariant DEF NilExplained
  <1>7. CASE UNCHANGED vars
    BY <1>7 DEF vars, NilExplained, IInv, TypeOK, CleanWrites, Clean, Writing, Names, GivenOut, JwtHolds, Settled, ErrorKept
  <1>8. QED
    BY <1>1, <1>2, <1>3, <1>4, <1>5, <1>6, <1>7 DEF Next, NilExplained, vars

\* The inductive invariant holds throughout (handleSetupCallback,
\* generateAppJWT and the clients' sync.Once).
THEOREM Invariance == Spec => []IInv
  <1>1. Init => IInv
    BY InitInvariant
  <1>2. IInv /\ [Next]_vars => IInv'
    BY StepInvariant
  <1>3. QED
    BY <1>1, <1>2, PTL DEF Spec

\* Every variable keeps its type, for any number of Apps and callbacks.
THEOREM TypeCorrect == Spec => []TypeOK
  <1>1. IInv => TypeOK
    BY DEF IInv
  <1>2. QED
    BY <1>1, Invariance, PTL

\* No client of Secret Manager is used that could not be made, and none of Cloud
\* Tasks but one whose creation failed before (getSecretManagerClient,
\* getCloudTasksClient).
THEOREM NilOnlyForgotten == Spec => NoNilClient
  <1>1. IInv /\ [Next]_vars => [\A s \in nilUsed' \ nilUsed :
                                  s = "cloudtasks" /\ ctClient.done /\ ~ctClient.made]_vars
    BY StepInvariant DEF NilExplained
  <1>2. QED
    BY <1>1, Invariance, PTL DEF Spec, NoNilClient

\* A page that says the credentials are saved is right, unless another setup was
\* under way beside it or a write was only logged (handleSetupCallback).
THEOREM SavedTheCredentials == Spec => []SavedIsWhole
  <1>1. IInv => SavedIsWhole
    BY SettledIsClean DEF IInv, CleanWrites, SavedIsWhole
  <1>2. QED
    BY <1>1, Invariance, PTL

\* A token names the App whose key signs it, however calls fail and processes
\* end, when no setup was in between (generateAppJWT).
THEOREM SignedByOneApp == Spec => []SignedWhole
  <1>1. IInv => SignedWhole
    BY DEF IInv, JwtHolds, SignedWhole
  <1>2. QED
    BY <1>1, Invariance, PTL

=============================================================================
