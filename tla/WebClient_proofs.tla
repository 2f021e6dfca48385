-------------------------- MODULE WebClient_proofs --------------------------
(***************************************************************************)
(* WebClient, for any files and records to create, any of them careful, and *)
(* any number of faults: the types, one live session for each file, and    *)
(* that no upload and no create that keeps its key is done twice, or shown *)
(* as done when it is not.  ClientInv is inductive: the page's actions are *)
(* seen as asking, settling or deserting, the server's as one kind of step *)
(* that answers, and each keeps its parts.  That retries succeed in the    *)
(* end is liveness and is checked by TLC only.                             *)
(***************************************************************************)
EXTENDS WebClient, FiniteSetTheorems, SequenceTheorems, TLAPS

\* Every create keeps its key once an attempt is in doubt.
AllCareful == Creates \subseteq Careful

-----------------------------------------------------------------------------
(* The inductive invariant *)

Messages == [what : Whats, sess : 0..Len(sessions), received : 0..Size]
Requests == [wish : Wishes, step : Steps, key : 1..keys, sess : 0..Len(sessions),
             from : 0..Size, nth : 0..MaxFaults, live : BOOLEAN]
Sessions == [file : Files, status : Statuses, late : BOOLEAN, bytes : {Rest(0, n) : n \in 0..Size}]

Types ==
  /\ page \in [Wishes -> Commands]
  /\ call \in [Wishes -> Calls]
  /\ reply \in [Wishes -> {Nothing} \cup Messages]
  /\ shown \subseteq Wishes /\ keys \in Nat /\ closed \in BOOLEAN
  /\ net \subseteq Requests
  /\ sessions \in Seq(Sessions)
  /\ DOMAIN done \subseteq Steps \X (1..keys)
  /\ \A k \in DOMAIN done : done[k] \in 0..Len(sessions)
  /\ made \in [Wishes -> Nat]
  /\ faults \in 0..MaxFaults

\* The steps of an upload that come after its session is known.
InSession == Steps \ {"create", "begin"}

\* Who waits for what: a command is pending, one request of it is under way or
\* its answer is, and both are about that command and its session.
Waiting ==
  /\ \A w \in Wishes :
       /\ call[w] # Nothing =>
            /\ page[w] # Nothing
            /\ (call[w].step = "create") = (w \in Creates)
            /\ call[w].step \in InSession => page[w].sess # 0
       /\ reply[w] # Nothing => call[w] # Nothing
       /\ page[w] # Nothing => ~closed /\ w \notin shown
       /\ page[w] # Nothing /\ page[w].sent => page[w].sess # 0
  /\ \A m \in net :
       /\ (m.step = "create") = (m.wish \in Creates)
       /\ m.step \in InSession => m.sess # 0 /\ sessions[m.sess].file = m.wish
       /\ m.live =>
            /\ call[m.wish] # Nothing /\ call[m.wish].step = m.step
            /\ reply[m.wish] = Nothing
            /\ m.key = page[m.wish].key
            /\ m.step \in InSession => m.sess = page[m.wish].sess
  /\ \A m, n \in net : m.live /\ n.live /\ m.wish = n.wish => m = n

\* Each key is drawn for one wish.
OwnKeys ==
  /\ \A m, n \in net : m.key = n.key => m.wish = n.wish
  /\ \A m \in net, w \in Wishes : page[w] # Nothing /\ page[w].key = m.key => m.wish = w
  /\ \A v, w \in Wishes : page[v] # Nothing /\ page[w] # Nothing /\ page[v].key = page[w].key => v = w

\* Key k is w's, as far as the page or a request of w has it.
HasKey(w, k) ==
  \/ page[w] # Nothing /\ page[w].key = k
  \/ \E m \in net : m.wish = w /\ m.key = k

\* A careful create has one key until it is done or was refused outright.
OneKey ==
  /\ \A w \in Careful : made[w] <= 1
  /\ \A w \in Careful : \A j, k \in 1..keys : HasKey(w, j) /\ HasKey(w, k) => j = k
  /\ \A w \in Careful, k \in 1..keys :
       HasKey(w, k) => (<<"create", k>> \in DOMAIN done <=> made[w] = 1)
  /\ \A w \in Careful : page[w] = Nothing /\ ~closed /\ w \notin shown =>
       made[w] = 0 /\ \A m \in net : m.wish # w
  /\ \A w \in Careful : w \in shown => made[w] = 1
  /\ \A w \in Careful : reply[w] # Nothing /\ reply[w].what = "ok" => made[w] = 1
  /\ \A w \in Careful : call[w] # Nothing /\ ~call[w].earlier =>
       /\ \A m \in net : m.wish = w => m.live
       /\ reply[w] # Nothing /\ reply[w].what = "refused" => made[w] = 0
       /\ \A m \in net : m.wish = w => made[w] = 0
  /\ \A w \in Files : made[w] = 0

Dead(w) == \A s \in SessionsOf(w) : sessions[s].status = "expired"
Unknown(m) == m.step = "begin" /\ ~Known(m)
Finalized(w) == \E s \in SessionsOf(w) : sessions[s].status = "finalized"

\* What the idempotency records say of a key is about the wish that has it.
Records ==
  \A w \in Wishes, k \in 1..keys : HasKey(w, k) =>
    /\ <<"begin", k>> \in DOMAIN done =>
         done[<<"begin", k>>] \in SessionsOf(w)
    /\ <<"finalize", k>> \in DOMAIN done =>
         /\ done[<<"finalize", k>>] \in SessionsOf(w)
         /\ sessions[done[<<"finalize", k>>]].status = "finalized"

\* The only session of a file that can still be finalised is the one its
\* pending command has begun; none is begun while there is one.
OneSession ==
  /\ \A w \in Files : \A r, s \in SessionsOf(w) :
       sessions[r].status # "expired" /\ sessions[s].status # "expired" => r = s
  /\ \A w \in Files : page[w] = Nothing /\ ~closed /\ w \notin shown => Dead(w)
  /\ \A w \in Wishes : page[w] # Nothing =>
       /\ \A s \in SessionsOf(w) : sessions[s].status # "expired" =>
            <<"begin", page[w].key>> \in DOMAIN done /\ s = done[<<"begin", page[w].key>>]
       /\ page[w].sess # 0 =>
            <<"begin", page[w].key>> \in DOMAIN done
            /\ page[w].sess = done[<<"begin", page[w].key>>]
  /\ \A m \in net : Unknown(m) =>
       /\ Dead(m.wish)
       /\ IF page[m.wish] = Nothing THEN closed ELSE m.key = page[m.wish].key
  /\ \A m, n \in net : Unknown(m) /\ Unknown(n) /\ m.wish = n.wish => m.key = n.key

\* What an answer tells of an upload is true when the page hears it.
Answers ==
  \A w \in Files :
    /\ w \in shown => Finalized(w)
    /\ Answered(w, "finalize", "ok") => Finalized(w)
    /\ Answered(w, "begin", "ok") =>
         <<"begin", page[w].key>> \in DOMAIN done /\ reply[w].sess = done[<<"begin", page[w].key>>]
    /\ Answered(w, "confirm", "expired") => sessions[page[w].sess].status = "expired"

UploadInv == Types /\ Waiting /\ OwnKeys /\ Records /\ OneSession /\ Answers
ClientInv == UploadInv /\ OneKey

-----------------------------------------------------------------------------
(* What the types say of a command, a request and a session *)

LEMMA Domains ==
  ASSUME Types
  PROVE  /\ DOMAIN sessions = 1..Len(sessions) /\ Len(sessions) \in Nat
         /\ \A s \in DOMAIN sessions : sessions[s] \in Sessions
<1>1. sessions \in Seq(Sessions)  BY DEF Types
<1>. QED  BY <1>1

LEMMA NothingIsNoRecord ==
  /\ \A n, l \in Nat :
       Nothing \notin [key : 1..n, sess : 0..l, tried : BOOLEAN, sent : BOOLEAN]
  /\ Nothing \notin [step : Steps, earlier : BOOLEAN]
  /\ \A l \in Nat : Nothing \notin [what : Whats, sess : 0..l, received : 0..Size]
<1>1. ASSUME NEW n \in Nat, NEW l \in Nat
      PROVE  Nothing \notin [key : 1..n, sess : 0..l, tried : BOOLEAN, sent : BOOLEAN]
  <2>1. ASSUME NEW x \in [key : 1..n, sess : 0..l, tried : BOOLEAN, sent : BOOLEAN]
        PROVE  x \in [key : Nat, sess : Nat, tried : BOOLEAN, sent : BOOLEAN]
    <3>1. 1..n \subseteq Nat /\ 0..l \subseteq Nat  OBVIOUS
    <3>. QED  BY <3>1
  <2>. QED  BY <2>1, ClientAssumption
<1>2. Nothing \notin [step : Steps, earlier : BOOLEAN]
  BY ClientAssumption
<1>3. ASSUME NEW l \in Nat PROVE Nothing \notin [what : Whats, sess : 0..l, received : 0..Size]
  <2>1. ASSUME NEW x \in [what : Whats, sess : 0..l, received : 0..Size]
        PROVE  x \in [what : Whats, sess : Nat, received : Nat]
    <3>1. 0..l \subseteq Nat /\ 0..Size \subseteq Nat  BY ClientAssumption
    <3>. QED  BY <3>1
  <2>. QED  BY <2>1, ClientAssumption
<1>. QED  BY <1>1, <1>2, <1>3

THEOREM InitHolds == Init => ClientInv
<1>. SUFFICES ASSUME Init PROVE ClientInv  OBVIOUS
<1>0. /\ Len(sessions) = 0 /\ DOMAIN sessions = {} /\ DOMAIN done = {}
      /\ sessions \in Seq(Sessions)
  BY DEF Init
<1>1. Types
  <2>1. /\ page \in [Wishes -> Commands] /\ call \in [Wishes -> Calls]
        /\ reply \in [Wishes -> {Nothing} \cup Messages]
    BY DEF Init, Commands, Calls
  <2>2. made \in [Wishes -> Nat] /\ faults \in 0..MaxFaults
    BY ClientAssumption DEF Init
  <2>. QED  BY <1>0, <2>1, <2>2 DEF Init, Types
<1>2. Waiting  BY DEF Init, Waiting
<1>3. OwnKeys  BY DEF Init, OwnKeys
<1>4. \A w \in Wishes : \A k : ~HasKey(w, k)  BY DEF HasKey, Init
<1>5. \A w : SessionsOf(w) = {}  BY <1>0 DEF SessionsOf
<1>6. Records  BY <1>4 DEF Records
<1>7. OneSession  BY <1>5 DEF Init, OneSession, Dead, Wishes
<1>8. Answers  BY DEF Init, Answers, Answered, Wishes
<1>9. OneKey  BY <1>4, ClientAssumption DEF Init, OneKey, Wishes
<1>. QED  BY <1>1, <1>2, <1>3, <1>6, <1>7, <1>8, <1>9 DEF ClientInv, UploadInv

-----------------------------------------------------------------------------
(* The page sends a request *)

PageCommands(n) == [key : 1..n, sess : 0..Len(sessions), tried : BOOLEAN, sent : BOOLEAN]

\* The page keeps command p for w and sends a step of it; p is the command it
\* has, or has a key nobody used.
Asks(w, step, p) ==
  /\ w \in Wishes /\ ~closed /\ w \notin shown /\ Underway(w) = {}
  /\ step \in Steps /\ (step = "create") = (w \in Creates)
  /\ p \in PageCommands(keys')
  /\ \/ page[w] # Nothing /\ p.key = page[w].key /\ keys' = keys
     \/ page[w] = Nothing /\ p.key = keys + 1 /\ keys' = keys + 1 /\ p.sess = 0
  /\ p.sent => p.sess # 0
  /\ p.sess # 0 => <<"begin", p.key>> \in DOMAIN done /\ p.sess = done[<<"begin", p.key>>]
  /\ step \in InSession => p.sess # 0
  /\ page' = [page EXCEPT ![w] = p] /\ reply' = [reply EXCEPT ![w] = Nothing]
  /\ \E earlier \in BOOLEAN, from \in 0..Size :
       /\ earlier = (page[w] # Nothing) \/ step # "create"
       /\ call' = [call EXCEPT ![w] = [step |-> step, earlier |-> earlier]]
       /\ net' = net \cup {[wish |-> w, step |-> step, key |-> p.key, sess |-> p.sess,
                            from |-> from, nth |-> faults, live |-> TRUE]}
  /\ UNCHANGED <<shown, closed, server, faults>>

LEMMA AskTypes ==
  ASSUME Types, NEW w, NEW step, NEW p, Asks(w, step, p)
  PROVE  Types'
<1>0. keys \in Nat /\ keys' \in Nat /\ keys <= keys' /\ 1..keys \subseteq 1..keys'
  BY DEF Types, Asks
<1>1. p \in Commands'
  BY DEF Asks, PageCommands, Commands, server
<1>2. Commands \subseteq Commands' /\ Messages \subseteq Messages' /\ Requests \subseteq Requests'
  BY <1>0 DEF Asks, Commands, Messages, Requests, server
<1>3. page' \in [Wishes -> Commands']
  BY <1>1, <1>2 DEF Types, Asks
<1>4. call' \in [Wishes -> Calls] /\ reply' \in [Wishes -> {Nothing} \cup Messages']
  BY <1>2 DEF Types, Asks, Calls
<1>5. PICK from \in 0..Size :
        net' = net \cup {[wish |-> w, step |-> step, key |-> p.key, sess |-> p.sess,
                          from |-> from, nth |-> faults, live |-> TRUE]}
  BY DEF Asks
<1>6. [wish |-> w, step |-> step, key |-> p.key, sess |-> p.sess,
       from |-> from, nth |-> faults, live |-> TRUE] \in Requests'
  BY DEF Types, Asks, PageCommands, Requests, server
<1>7. net' \subseteq Requests'
  BY <1>2, <1>5, <1>6 DEF Types
<1>8. DOMAIN done' \subseteq Steps \X (1..keys')
  BY <1>0 DEF Types, Asks, server
<1>9. sessions' = sessions /\ done' = done /\ made' = made /\ faults' = faults
  BY DEF Asks, server
<1>. QED  BY <1>0, <1>3, <1>4, <1>7, <1>8, <1>9 DEF Types, Asks

\* What the page and the network hold after it: the request is the only new one.
LEMMA AskFacts ==
  ASSUME Types, Waiting, NEW w, NEW step, NEW p, Asks(w, step, p)
  PROVE  /\ \A v \in Wishes : v # w => page'[v] = page[v] /\ call'[v] = call[v] /\ reply'[v] = reply[v]
         /\ page'[w] = p /\ reply'[w] = Nothing /\ p # Nothing
         /\ call'[w] # Nothing /\ call'[w].step = step
         /\ step = "create" => call'[w].earlier = (page[w] # Nothing)
         /\ \E n \in net' :
              /\ n.wish = w /\ n.step = step /\ n.key = p.key /\ n.sess = p.sess /\ n.live
              /\ net' = net \cup {n}
         /\ \A m \in net : m.wish = w => ~m.live
         /\ sessions' = sessions /\ done' = done /\ made' = made
         /\ shown' = shown /\ closed' = closed
<1>1. PICK earlier \in BOOLEAN, from \in 0..Size :
        /\ earlier = (page[w] # Nothing) \/ step # "create"
        /\ call' = [call EXCEPT ![w] = [step |-> step, earlier |-> earlier]]
        /\ net' = net \cup {[wish |-> w, step |-> step, key |-> p.key, sess |-> p.sess,
                             from |-> from, nth |-> faults, live |-> TRUE]}
  BY DEF Asks
<1>2. call'[w] = [step |-> step, earlier |-> earlier]
  BY <1>1 DEF Types, Asks
<1>3. call'[w] # Nothing
  BY <1>2, NothingIsNoRecord DEF Asks
<1>4. p # Nothing
  <2>1. keys' \in Nat /\ Len(sessions) \in Nat  BY Domains DEF Types, Asks
  <2>. QED  BY <2>1, NothingIsNoRecord DEF Asks, PageCommands
<1>5. \A v \in Wishes : v # w => page'[v] = page[v] /\ call'[v] = call[v] /\ reply'[v] = reply[v]
  BY <1>1 DEF Types, Asks
<1>6. page'[w] = p /\ reply'[w] = Nothing
  BY DEF Types, Asks
<1>7. \E n \in net' :
        /\ n.wish = w /\ n.step = step /\ n.key = p.key /\ n.sess = p.sess /\ n.live
        /\ net' = net \cup {n}
  <2>. DEFINE n == [wish |-> w, step |-> step, key |-> p.key, sess |-> p.sess,
                    from |-> from, nth |-> faults, live |-> TRUE]
  <2>1. n \in net' /\ net' = net \cup {n}  BY <1>1
  <2>2. n.wish = w /\ n.step = step /\ n.key = p.key /\ n.sess = p.sess /\ n.live  OBVIOUS
  <2>. HIDE DEF n
  <2>. QED  BY <2>1, <2>2
<1>8. \A m \in net : m.wish = w => ~m.live
  BY DEF Asks, Underway
<1>9. /\ sessions' = sessions /\ done' = done /\ made' = made
      /\ shown' = shown /\ closed' = closed
  BY DEF Asks, server
<1>. QED  BY <1>1, <1>2, <1>3, <1>4, <1>5, <1>6, <1>7, <1>8, <1>9

\* A key of w after the request is one it had before, or was never used.
LEMMA AskedKeys ==
  ASSUME Types, Waiting, NEW w, NEW step, NEW p, Asks(w, step, p)
  PROVE  /\ \A v \in Wishes, k \in 1..keys' : HasKey(v, k)' =>
              \/ HasKey(v, k) /\ k \in 1..keys
              \/ v = w /\ k = p.key /\ k \notin 1..keys /\ page[w] = Nothing
         /\ p.key \in 1..keys' /\ keys \in Nat
         /\ p.key \in 1..keys => page[w] # Nothing /\ p.key = page[w].key
         /\ page[w] = Nothing => p.key \notin 1..keys /\ p.sess = 0
         /\ page[w] # Nothing => p.key = page[w].key /\ p.key \in 1..keys
         /\ \A m \in net : m.key \in 1..keys /\ m.wish \in Wishes
         /\ \A v \in Wishes : page[v] # Nothing => page[v].key \in 1..keys
<1>1. /\ p.key \in 1..keys' /\ keys \in Nat
      /\ page[w] = Nothing => p.key = keys + 1 /\ keys' = keys + 1 /\ p.sess = 0
      /\ page[w] # Nothing => p.key = page[w].key /\ keys' = keys
  BY DEF Types, Asks, PageCommands
<1>2. \A m \in net : m.key \in 1..keys /\ m.wish \in Wishes
  BY DEF Types, Requests
<1>3. \A v \in Wishes : page[v] # Nothing => page[v].key \in 1..keys
  BY DEF Types, Commands
<1>4. w \in Wishes  BY DEF Asks
<1>5. page[w] = Nothing => p.key \notin 1..keys
  BY <1>1
<1>6. ASSUME NEW v \in Wishes, NEW k \in 1..keys', HasKey(v, k)'
      PROVE  \/ HasKey(v, k) /\ k \in 1..keys
             \/ v = w /\ k = p.key /\ k \notin 1..keys /\ page[w] = Nothing
  <2>1. \/ page'[v] # Nothing /\ page'[v].key = k
        \/ \E m \in net' : m.wish = v /\ m.key = k
    BY <1>6 DEF HasKey
  <2>2. PICK n \in net' : n.wish = w /\ n.key = p.key /\ net' = net \cup {n}
    BY AskFacts
  <2>3. v # w => page'[v] = page[v]  BY AskFacts
  <2>4. page'[w] = p  BY AskFacts
  <2>. QED  BY <1>1, <1>2, <1>3, <1>4, <1>5, <2>1, <2>2, <2>3, <2>4 DEF HasKey
<1>. QED  BY <1>1, <1>2, <1>3, <1>4, <1>5, <1>6

LEMMA AskWaits ==
  ASSUME UploadInv, NEW w, NEW step, NEW p, Asks(w, step, p)
  PROVE  Waiting' /\ OwnKeys'
<1>0. Types /\ Waiting /\ OwnKeys  BY DEF UploadInv
<1>1. PICK n \in net' :
        /\ n.wish = w /\ n.step = step /\ n.key = p.key /\ n.sess = p.sess /\ n.live
        /\ net' = net \cup {n}
  BY <1>0, AskFacts
<1>2. /\ \A v \in Wishes : v # w => page'[v] = page[v] /\ call'[v] = call[v] /\ reply'[v] = reply[v]
      /\ page'[w] = p /\ reply'[w] = Nothing /\ p # Nothing
      /\ call'[w] # Nothing /\ call'[w].step = step
      /\ \A m \in net : m.wish = w => ~m.live
      /\ sessions' = sessions /\ shown' = shown /\ closed' = closed
  BY <1>0, AskFacts
<1>3. \A m \in net : m.wish \in Wishes  BY <1>0 DEF Types, Requests
<1>4. /\ w \in Wishes /\ ~closed /\ w \notin shown
      /\ (step = "create") = (w \in Creates)
      /\ p.sent => p.sess # 0 
      /\ step \in InSession => p.sess # 0
  BY DEF Asks
<1>5. p.sess # 0 => sessions[p.sess].file = w
  <2>. SUFFICES ASSUME p.sess # 0 PROVE sessions[p.sess].file = w  OBVIOUS
  <2>1. <<"begin", p.key>> \in DOMAIN done /\ p.sess = done[<<"begin", p.key>>] /\ page[w] # Nothing
    BY DEF Asks
  <2>2. HasKey(w, p.key) /\ p.key \in 1..keys  BY <1>0, <2>1, <1>4, AskedKeys DEF HasKey
  <2>3. p.sess \in SessionsOf(w)  BY <1>4, <2>1, <2>2 DEF UploadInv, Records
  <2>. QED  BY <2>3 DEF SessionsOf
<1>6. Waiting'
  <2>1. \A v \in Wishes :
          /\ call'[v] # Nothing =>
               /\ page'[v] # Nothing
               /\ (call'[v].step = "create") = (v \in Creates)
               /\ call'[v].step \in InSession => page'[v].sess # 0
          /\ reply'[v] # Nothing => call'[v] # Nothing
          /\ page'[v] # Nothing => ~closed' /\ v \notin shown'
          /\ page'[v] # Nothing /\ page'[v].sent => page'[v].sess # 0
    BY <1>0, <1>2, <1>4 DEF Waiting
  <2>2. ASSUME NEW m \in net'
        PROVE  /\ (m.step = "create") = (m.wish \in Creates)
               /\ m.step \in InSession => m.sess # 0 /\ sessions'[m.sess].file = m.wish
               /\ m.live =>
                    /\ call'[m.wish] # Nothing /\ call'[m.wish].step = m.step
                    /\ reply'[m.wish] = Nothing
                    /\ m.key = page'[m.wish].key
                    /\ m.step \in InSession => m.sess = page'[m.wish].sess
    <3>1. CASE m = n  BY <3>1, <1>1, <1>2, <1>4, <1>5
    <3>2. CASE m \in net  BY <3>2, <1>0, <1>2, <1>3 DEF Waiting
    <3>. QED  BY <3>1, <3>2, <1>1
  <2>3. \A m, o \in net' : m.live /\ o.live /\ m.wish = o.wish => m = o
    BY <1>0, <1>1, <1>2 DEF Waiting
  <2>. QED  BY <2>1, <2>2, <2>3 DEF Waiting
<1>7. OwnKeys'
  <2>0. /\ p.key \in 1..keys => page[w] # Nothing /\ p.key = page[w].key
        /\ \A m \in net : m.key \in 1..keys
        /\ \A v \in Wishes : page[v] # Nothing => page[v].key \in 1..keys
    BY <1>0, AskedKeys
  <2>1. \A m, o \in net' : m.key = o.key => m.wish = o.wish
    BY <1>0, <1>1, <1>4, <2>0 DEF OwnKeys
  <2>2. \A m \in net', v \in Wishes : page'[v] # Nothing /\ page'[v].key = m.key => m.wish = v
    BY <1>0, <1>1, <1>2, <1>4, <2>0 DEF OwnKeys
  <2>3. \A v, u \in Wishes :
          page'[v] # Nothing /\ page'[u] # Nothing /\ page'[v].key = page'[u].key => v = u
    BY <1>0, <1>2, <1>4, <2>0 DEF OwnKeys
  <2>. QED  BY <2>1, <2>2, <2>3 DEF OwnKeys
<1>. QED  BY <1>6, <1>7

LEMMA AskRecords ==
  ASSUME UploadInv, NEW w, NEW step, NEW p, Asks(w, step, p)
  PROVE  Records' /\ OneSession' /\ Answers'
<1>0. Types /\ Waiting /\ OwnKeys /\ Records /\ OneSession /\ Answers  BY DEF UploadInv
<1>1. PICK n \in net' :
        /\ n.wish = w /\ n.step = step /\ n.key = p.key /\ n.sess = p.sess /\ n.live
        /\ net' = net \cup {n}
  BY <1>0, AskFacts
<1>2. /\ \A v \in Wishes : v # w => page'[v] = page[v] /\ call'[v] = call[v] /\ reply'[v] = reply[v]
      /\ page'[w] = p /\ reply'[w] = Nothing /\ p # Nothing
      /\ sessions' = sessions /\ done' = done /\ shown' = shown /\ closed' = closed
  BY <1>0, AskFacts
<1>3. w \in Wishes /\ ~closed /\ w \notin shown  BY DEF Asks
<1>4. /\ p.key \in 1..keys => page[w] # Nothing /\ p.key = page[w].key
      /\ page[w] = Nothing => p.key \notin 1..keys /\ p.sess = 0
      /\ page[w] # Nothing => p.key = page[w].key
  BY <1>0, AskedKeys
<1>5. \A v : SessionsOf(v)' = SessionsOf(v) /\ Dead(v)' = Dead(v) /\ Finalized(v)' = Finalized(v)
  BY <1>2 DEF SessionsOf, Dead, Finalized
<1>6. \A m : Known(m)' = Known(m) /\ Unknown(m)' = Unknown(m)
  BY <1>2 DEF Known, Unknown
<1>7. \A s, k : k \notin 1..keys => <<s, k>> \notin DOMAIN done
  BY <1>0 DEF Types
<1>8. Records'
  <2>. SUFFICES ASSUME NEW v \in Wishes, NEW k \in 1..keys', HasKey(v, k)'
                PROVE  /\ <<"begin", k>> \in DOMAIN done =>
                            done[<<"begin", k>>] \in SessionsOf(v)
                       /\ <<"finalize", k>> \in DOMAIN done =>
                            /\ done[<<"finalize", k>>] \in SessionsOf(v)
                            /\ sessions[done[<<"finalize", k>>]].status = "finalized"
    BY <1>2, <1>5 DEF Records
  <2>1. (HasKey(v, k) /\ k \in 1..keys) \/ k \notin 1..keys  BY <1>0, AskedKeys
  <2>2. CASE k \notin 1..keys  BY <2>2, <1>7
  <2>3. CASE HasKey(v, k) /\ k \in 1..keys  BY <2>3, <1>0 DEF Records
  <2>. QED  BY <2>1, <2>2, <2>3
<1>9. w \in Files /\ page[w] = Nothing => Dead(w)
  BY <1>0, <1>3 DEF OneSession
<1>10. page[w] = Nothing => Dead(w)
  <2>1. w \notin Files => SessionsOf(w) = {}
    BY <1>0, Domains DEF SessionsOf, Sessions
  <2>. QED  BY <1>9, <2>1 DEF Dead
<1>11. /\ \A s \in SessionsOf(w) : sessions[s].status # "expired" =>
             <<"begin", p.key>> \in DOMAIN done /\ s = done[<<"begin", p.key>>]
       /\ p.sess # 0 => <<"begin", p.key>> \in DOMAIN done /\ p.sess = done[<<"begin", p.key>>]
  <2>1. p.sess # 0 => <<"begin", p.key>> \in DOMAIN done /\ p.sess = done[<<"begin", p.key>>]
    BY DEF Asks
  <2>2. CASE page[w] = Nothing  BY <2>1, <2>2, <1>10 DEF Dead
  <2>3. CASE page[w] # Nothing  BY <2>1, <2>3, <1>0, <1>3, <1>4 DEF OneSession
  <2>. QED  BY <2>2, <2>3
<1>12. ASSUME NEW m \in net', Unknown(m), m.wish = w
       PROVE  Dead(w) /\ m.key = p.key
  <2>1. CASE m = n
    <3>1. <<"begin", p.key>> \notin DOMAIN done  BY <1>12, <2>1, <1>1 DEF Unknown, Known
    <3>. QED  BY <3>1, <2>1, <1>1, <1>11 DEF Dead
  <2>2. CASE m \in net
    BY <1>12, <2>2, <1>0, <1>3, <1>4 DEF OneSession
  <2>. QED  BY <2>1, <2>2, <1>1
<1>13. OneSession'
  <2>1. \A v \in Files : \A r, s \in SessionsOf(v)' :
          sessions'[r].status # "expired" /\ sessions'[s].status # "expired" => r = s
    BY <1>0, <1>2, <1>5 DEF OneSession
  <2>2. \A v \in Files : page'[v] = Nothing /\ ~closed' /\ v \notin shown' => Dead(v)'
    BY <1>0, <1>2, <1>5 DEF OneSession, Wishes
  <2>3. \A v \in Wishes : page'[v] # Nothing =>
          /\ \A s \in SessionsOf(v)' : sessions'[s].status # "expired" =>
               <<"begin", page'[v].key>> \in DOMAIN done' /\ s = done'[<<"begin", page'[v].key>>]
          /\ page'[v].sess # 0 =>
               <<"begin", page'[v].key>> \in DOMAIN done'
               /\ page'[v].sess = done'[<<"begin", page'[v].key>>]
    <3>. SUFFICES ASSUME NEW v \in Wishes, page'[v] # Nothing
                  PROVE  /\ \A s \in SessionsOf(v) : sessions[s].status # "expired" =>
                              <<"begin", page'[v].key>> \in DOMAIN done /\ s = done[<<"begin", page'[v].key>>]
                         /\ page'[v].sess # 0 =>
                              <<"begin", page'[v].key>> \in DOMAIN done
                              /\ page'[v].sess = done[<<"begin", page'[v].key>>]
      BY <1>2, <1>5
    <3>1. CASE v = w  BY <3>1, <1>2, <1>11
    <3>2. CASE v # w  BY <3>2, <1>2, <1>0 DEF OneSession
    <3>. QED  BY <3>1, <3>2
  <2>4. \A m \in net' : Unknown(m)' =>
          /\ Dead(m.wish)'
          /\ IF page'[m.wish] = Nothing THEN closed' ELSE m.key = page'[m.wish].key
    <3>. SUFFICES ASSUME NEW m \in net', Unknown(m)
                  PROVE  /\ Dead(m.wish)
                         /\ IF page'[m.wish] = Nothing THEN closed ELSE m.key = page'[m.wish].key
      BY <1>2, <1>5, <1>6
    <3>1. CASE m.wish # w
      <4>1. m \in net /\ m.wish \in Wishes  BY <3>1, <1>0, <1>1 DEF Types, Requests
      <4>. QED  BY <3>1, <4>1, <1>0, <1>2 DEF OneSession
    <3>2. CASE m.wish = w
      <4>1. Dead(w) /\ m.key = p.key  BY <3>2, <1>12
      <4>2. Dead(m.wish)  BY <3>2, <4>1
      <4>. QED  BY <3>2, <4>1, <4>2, <1>2
    <3>. QED  BY <3>1, <3>2
  <2>5. \A m, o \in net' : Unknown(m)' /\ Unknown(o)' /\ m.wish = o.wish => m.key = o.key
    <3>. SUFFICES ASSUME NEW m \in net', NEW o \in net', Unknown(m), Unknown(o), m.wish = o.wish
                  PROVE  m.key = o.key
      BY <1>6
    <3>1. CASE m.wish = w  BY <3>1, <1>12
    <3>2. CASE m.wish # w
      <4>1. m \in net /\ o \in net  BY <3>2, <1>1
      <4>. QED  BY <4>1, <1>0 DEF OneSession
    <3>. QED  BY <3>1, <3>2
  <2>. QED  BY <2>1, <2>2, <2>3, <2>4, <2>5 DEF OneSession
<1>14. Answers'
  <2>1. \A v \in Files : v \in Wishes  BY DEF Wishes
  <2>. SUFFICES ASSUME NEW v \in Files
                PROVE  /\ v \in shown => Finalized(v)
                       /\ Answered(v, "finalize", "ok")' => Finalized(v)
                       /\ Answered(v, "begin", "ok")' =>
                            <<"begin", page'[v].key>> \in DOMAIN done
                            /\ reply'[v].sess = done[<<"begin", page'[v].key>>]
                       /\ Answered(v, "confirm", "expired")' => sessions[page'[v].sess].status = "expired"
    BY <1>2, <1>5 DEF Answers
  <2>2. CASE v = w  BY <2>2, <1>2, <1>3 DEF Answered
  <2>3. CASE v # w  BY <2>1, <2>3, <1>0, <1>2 DEF Answers, Answered
  <2>. QED  BY <2>2, <2>3
<1>. QED  BY <1>8, <1>13, <1>14

LEMMA AskOneKey ==
  ASSUME ClientInv, NEW w, NEW step, NEW p, Asks(w, step, p)
  PROVE  OneKey'
<1>0. Types /\ Waiting /\ OneKey  BY DEF ClientInv, UploadInv
<1>1. PICK n \in net' :
        /\ n.wish = w /\ n.step = step /\ n.key = p.key /\ n.sess = p.sess /\ n.live
        /\ net' = net \cup {n}
  BY <1>0, AskFacts
<1>2. /\ \A v \in Wishes : v # w => page'[v] = page[v] /\ call'[v] = call[v] /\ reply'[v] = reply[v]
      /\ page'[w] = p /\ reply'[w] = Nothing /\ p # Nothing
      /\ call'[w] # Nothing /\ call'[w].step = step
      /\ step = "create" => call'[w].earlier = (page[w] # Nothing)
      /\ done' = done /\ made' = made /\ shown' = shown /\ closed' = closed
  BY <1>0, AskFacts
<1>3. /\ w \in Wishes /\ ~closed /\ w \notin shown
      /\ (step = "create") = (w \in Creates)
  BY DEF Asks
<1>4. /\ \A v \in Wishes, k \in 1..keys' : HasKey(v, k)' =>
              \/ HasKey(v, k) /\ k \in 1..keys
              \/ v = w /\ k = p.key /\ k \notin 1..keys /\ page[w] = Nothing
      /\ \A m \in net : m.key \in 1..keys /\ m.wish \in Wishes
      /\ p.key \in 1..keys => page[w] # Nothing
      /\ \A v \in Wishes : page[v] # Nothing => page[v].key \in 1..keys
  BY <1>0, AskedKeys
<1>5. \A s, k : k \notin 1..keys => <<s, k>> \notin DOMAIN done
  BY <1>0 DEF Types
<1>6. w \in Careful /\ page[w] = Nothing => made[w] = 0 /\ \A m \in net : m.wish # w
  BY <1>0, <1>3 DEF OneKey
<1>7. \A v \in Careful : v \in Wishes /\ v \in Creates  BY ClientAssumption DEF Wishes
<1>8. \A v \in Careful : \A j, k \in 1..keys' : HasKey(v, j)' /\ HasKey(v, k)' => j = k
  <2>. SUFFICES ASSUME NEW v \in Careful, NEW j \in 1..keys', NEW k \in 1..keys',
                       HasKey(v, j)', HasKey(v, k)'
                PROVE  j = k
    OBVIOUS
  <2>1. ASSUME HasKey(v, j), HasKey(v, k), j \in 1..keys, k \in 1..keys PROVE j = k
    BY <2>1, <1>0 DEF OneKey
  <2>2. ASSUME page[w] = Nothing, v = w, NEW i \in 1..keys PROVE ~HasKey(v, i)
    BY <2>2, <1>6 DEF HasKey
  <2>. QED  BY <2>1, <2>2, <1>4, <1>7
<1>9. \A v \in Careful, k \in 1..keys' :
         HasKey(v, k)' => (<<"create", k>> \in DOMAIN done <=> made[v] = 1)
  <2>. SUFFICES ASSUME NEW v \in Careful, NEW k \in 1..keys', HasKey(v, k)'
                PROVE  <<"create", k>> \in DOMAIN done <=> made[v] = 1
    OBVIOUS
  <2>1. CASE HasKey(v, k) /\ k \in 1..keys  BY <2>1, <1>0 DEF OneKey
  <2>2. CASE v = w /\ k \notin 1..keys /\ page[w] = Nothing  BY <2>2, <1>5, <1>6
  <2>. QED  BY <2>1, <2>2, <1>4, <1>7
<1>10. \A v \in Careful : page'[v] = Nothing /\ ~closed' /\ v \notin shown' =>
         made[v] = 0 /\ \A m \in net' : m.wish # v
  BY <1>0, <1>1, <1>2, <1>7 DEF OneKey
<1>11. \A v \in Careful : reply'[v] # Nothing /\ reply'[v].what = "ok" => made[v] = 1
  BY <1>0, <1>2, <1>7 DEF OneKey
<1>12. \A v \in Careful : call'[v] # Nothing /\ ~call'[v].earlier =>
         /\ \A m \in net' : m.wish = v => m.live
         /\ reply'[v] # Nothing /\ reply'[v].what = "refused" => made[v] = 0
         /\ \A m \in net' : m.wish = v => made[v] = 0
  <2>. SUFFICES ASSUME NEW v \in Careful, call'[v] # Nothing, ~call'[v].earlier
                PROVE  /\ \A m \in net' : m.wish = v => m.live
                       /\ reply'[v] # Nothing /\ reply'[v].what = "refused" => made[v] = 0
                       /\ \A m \in net' : m.wish = v => made[v] = 0
    OBVIOUS
  <2>1. CASE v = w  BY <2>1, <1>1, <1>2, <1>3, <1>6, <1>7
  <2>2. CASE v # w  BY <2>2, <1>0, <1>1, <1>2, <1>7 DEF OneKey
  <2>. QED  BY <2>1, <2>2
<1>. QED  BY <1>0, <1>2, <1>8, <1>9, <1>10, <1>11, <1>12 DEF OneKey

-----------------------------------------------------------------------------
(* The page hears an answer and asks for nothing more *)

\* w's command is kept, or is let go: for good, because it is done, or so that
\* another can take its place.
Settles(w) ==
  /\ w \in Wishes /\ reply[w] # Nothing
  /\ shown' \in {shown, shown \cup {w}}
  /\ \/ page' = page /\ shown' = shown
     \/ page' = [page EXCEPT ![w] = Nothing]
  /\ call' = [call EXCEPT ![w] = Nothing] /\ reply' = [reply EXCEPT ![w] = Nothing]
  /\ UNCHANGED <<net, keys, closed, server, faults>>

\* What lets an upload's command go.
UploadLetGo(w) ==
  page'[w] = Nothing =>
    /\ w \in Files => IF w \in shown' THEN Finalized(w) ELSE Dead(w)
    /\ \A m \in net : m.wish = w => ~Unknown(m)

\* What lets a careful create's command go.
CreateLetGo(w) ==
  w \in Careful /\ page'[w] = Nothing =>
    IF w \in shown' THEN made[w] = 1 ELSE made[w] = 0 /\ \A m \in net : m.wish # w

LEMMA SettleFacts ==
  ASSUME Types, Waiting, NEW w, Settles(w)
  PROVE  /\ \A v \in Wishes : v # w => page'[v] = page[v] /\ call'[v] = call[v] /\ reply'[v] = reply[v]
         /\ page'[w] # Nothing => page'[w] = page[w] /\ shown' = shown
         /\ call'[w] = Nothing /\ reply'[w] = Nothing
         /\ \A m \in net : m.wish = w => ~m.live
         /\ net' = net /\ sessions' = sessions /\ done' = done /\ made' = made
         /\ closed' = closed /\ keys' = keys /\ faults' = faults /\ w \in Wishes /\ ~closed
         /\ shown \subseteq shown' /\ shown' \subseteq shown \cup {w}
         /\ \A v \in Wishes : \A k : HasKey(v, k)' => HasKey(v, k)
<1>1. \A v \in Wishes : v # w => page'[v] = page[v] /\ call'[v] = call[v] /\ reply'[v] = reply[v]
  BY DEF Types, Settles
<1>2. page'[w] # Nothing => page'[w] = page[w] /\ shown' = shown
  BY DEF Types, Settles
<1>3. call'[w] = Nothing /\ reply'[w] = Nothing
  BY DEF Types, Settles
<1>4. ASSUME NEW m \in net, m.wish = w PROVE ~m.live
  BY <1>4 DEF Waiting, Settles
<1>5. /\ net' = net /\ sessions' = sessions /\ done' = done /\ made' = made
      /\ closed' = closed /\ keys' = keys /\ faults' = faults /\ w \in Wishes
      /\ shown \subseteq shown' /\ shown' \subseteq shown \cup {w}
  BY DEF Settles, server
<1>6. ~closed
  BY DEF Waiting, Settles
<1>7. \A v \in Wishes : \A k : HasKey(v, k)' => HasKey(v, k)
  BY <1>1, <1>2, <1>5 DEF HasKey
<1>. QED  BY <1>1, <1>2, <1>3, <1>4, <1>5, <1>6, <1>7

LEMMA SettleKeeps ==
  ASSUME UploadInv, NEW w, Settles(w), UploadLetGo(w)
  PROVE  UploadInv'
<1>0. Types /\ Waiting /\ OwnKeys /\ Records /\ OneSession /\ Answers  BY DEF UploadInv
<1>1. /\ \A v \in Wishes : v # w => page'[v] = page[v] /\ call'[v] = call[v] /\ reply'[v] = reply[v]
      /\ page'[w] # Nothing => page'[w] = page[w] /\ shown' = shown
      /\ call'[w] = Nothing /\ reply'[w] = Nothing
      /\ \A m \in net : m.wish = w => ~m.live
      /\ net' = net /\ sessions' = sessions /\ done' = done /\ made' = made
      /\ closed' = closed /\ keys' = keys /\ faults' = faults /\ w \in Wishes /\ ~closed
      /\ shown \subseteq shown' /\ shown' \subseteq shown \cup {w}
      /\ \A v \in Wishes : \A k : HasKey(v, k)' => HasKey(v, k)
  BY <1>0, SettleFacts
<1>2. \A m \in net : m.wish \in Wishes  BY <1>0 DEF Types, Requests
<1>3. /\ \A v : SessionsOf(v)' = SessionsOf(v) /\ Dead(v)' = Dead(v) /\ Finalized(v)' = Finalized(v)
      /\ \A m : Known(m)' = Known(m) /\ Unknown(m)' = Unknown(m)
  BY <1>1 DEF SessionsOf, Dead, Finalized, Known, Unknown
<1>4. Types'
  <2>1. Commands' = Commands /\ Messages' = Messages /\ Requests' = Requests
    BY <1>1 DEF Commands, Messages, Requests
  <2>2. page' \in [Wishes -> Commands] /\ call' \in [Wishes -> Calls]
        /\ reply' \in [Wishes -> {Nothing} \cup Messages]
    BY <1>0 DEF Types, Settles, Commands, Calls
  <2>. QED  BY <1>0, <1>1, <2>1, <2>2 DEF Types
<1>5. Waiting'
  <2>1. \A v \in Wishes :
          /\ call'[v] # Nothing =>
               /\ page'[v] # Nothing
               /\ (call'[v].step = "create") = (v \in Creates)
               /\ call'[v].step \in InSession => page'[v].sess # 0
          /\ reply'[v] # Nothing => call'[v] # Nothing
          /\ page'[v] # Nothing => ~closed' /\ v \notin shown'
          /\ page'[v] # Nothing /\ page'[v].sent => page'[v].sess # 0
    BY <1>0, <1>1 DEF Waiting
  <2>2. \A m \in net' :
          /\ (m.step = "create") = (m.wish \in Creates)
          /\ m.step \in InSession => m.sess # 0 /\ sessions'[m.sess].file = m.wish
          /\ m.live =>
               /\ call'[m.wish] # Nothing /\ call'[m.wish].step = m.step
               /\ reply'[m.wish] = Nothing
               /\ m.key = page'[m.wish].key
               /\ m.step \in InSession => m.sess = page'[m.wish].sess
    BY <1>0, <1>1, <1>2 DEF Waiting
  <2>3. \A m, o \in net' : m.live /\ o.live /\ m.wish = o.wish => m = o
    BY <1>0, <1>1 DEF Waiting
  <2>. QED  BY <2>1, <2>2, <2>3 DEF Waiting
<1>6. OwnKeys'
  BY <1>0, <1>1 DEF OwnKeys
<1>7. Records'
  BY <1>0, <1>1, <1>3 DEF Records
<1>8. OneSession'
  <2>1. \A v \in Files : page'[v] = Nothing /\ ~closed' /\ v \notin shown' => Dead(v)'
    BY <1>0, <1>1, <1>3 DEF OneSession, UploadLetGo, Wishes
  <2>2. \A v \in Files : \A r, s \in SessionsOf(v)' :
          sessions'[r].status # "expired" /\ sessions'[s].status # "expired" => r = s
    BY <1>0, <1>1, <1>3 DEF OneSession
  <2>3. \A v \in Wishes : page'[v] # Nothing =>
          /\ \A s \in SessionsOf(v)' : sessions'[s].status # "expired" =>
               <<"begin", page'[v].key>> \in DOMAIN done' /\ s = done'[<<"begin", page'[v].key>>]
          /\ page'[v].sess # 0 =>
               <<"begin", page'[v].key>> \in DOMAIN done'
               /\ page'[v].sess = done'[<<"begin", page'[v].key>>]
    <3>. SUFFICES ASSUME NEW v \in Wishes, page'[v] # Nothing
                  PROVE  /\ \A s \in SessionsOf(v) : sessions[s].status # "expired" =>
                              <<"begin", page'[v].key>> \in DOMAIN done /\ s = done[<<"begin", page'[v].key>>]
                         /\ page'[v].sess # 0 =>
                              <<"begin", page'[v].key>> \in DOMAIN done
                              /\ page'[v].sess = done[<<"begin", page'[v].key>>]
      BY <1>1, <1>3
    <3>1. page'[v] = page[v]  BY <1>1
    <3>. QED  BY <3>1, <1>0 DEF OneSession
  <2>4. \A m \in net' : Unknown(m)' =>
          /\ Dead(m.wish)'
          /\ IF page'[m.wish] = Nothing THEN closed' ELSE m.key = page'[m.wish].key
    <3>. SUFFICES ASSUME NEW m \in net, Unknown(m)
                  PROVE  /\ Dead(m.wish)
                         /\ IF page'[m.wish] = Nothing THEN closed ELSE m.key = page'[m.wish].key
      BY <1>1, <1>3
    <3>1. m.wish = w => page'[w] # Nothing  BY DEF UploadLetGo
    <3>2. page'[m.wish] = page[m.wish]  BY <1>1, <1>2, <3>1
    <3>. QED  BY <3>2, <1>0 DEF OneSession
  <2>5. \A m, o \in net' : Unknown(m)' /\ Unknown(o)' /\ m.wish = o.wish => m.key = o.key
    BY <1>0, <1>1, <1>3 DEF OneSession
  <2>. QED  BY <2>1, <2>2, <2>3, <2>4, <2>5 DEF OneSession
<1>9. Answers'
  <2>. SUFFICES ASSUME NEW v \in Files
                PROVE  /\ v \in shown' => Finalized(v)
                       /\ Answered(v, "finalize", "ok")' => Finalized(v)
                       /\ Answered(v, "begin", "ok")' =>
                            <<"begin", page'[v].key>> \in DOMAIN done
                            /\ reply'[v].sess = done[<<"begin", page'[v].key>>]
                       /\ Answered(v, "confirm", "expired")' => sessions[page'[v].sess].status = "expired"
    BY <1>1, <1>3 DEF Answers
  <2>1. v \in Wishes  BY DEF Wishes
  <2>2. CASE v = w
    <3>1. w \in shown' => Finalized(w)
      BY <2>2, <1>0, <1>1 DEF Answers, UploadLetGo
    <3>2. v \in shown' => Finalized(v)
      BY <3>1, <2>2
    <3>. QED  BY <2>2, <3>2, <1>1 DEF Answered
  <2>3. CASE v # w  BY <2>1, <2>3, <1>0, <1>1 DEF Answers, Answered
  <2>. QED  BY <2>2, <2>3
<1>. QED  BY <1>4, <1>5, <1>6, <1>7, <1>8, <1>9 DEF UploadInv

LEMMA SettleOneKey ==
  ASSUME ClientInv, NEW w, Settles(w), CreateLetGo(w)
  PROVE  OneKey'
<1>0. Types /\ Waiting /\ OneKey  BY DEF ClientInv, UploadInv
<1>1. /\ \A v \in Wishes : v # w => page'[v] = page[v] /\ call'[v] = call[v] /\ reply'[v] = reply[v]
      /\ page'[w] # Nothing => page'[w] = page[w] /\ shown' = shown
      /\ call'[w] = Nothing /\ reply'[w] = Nothing
      /\ net' = net /\ done' = done /\ made' = made
      /\ closed' = closed /\ keys' = keys
      /\ shown \subseteq shown' /\ shown' \subseteq shown \cup {w}
      /\ \A v \in Wishes : \A k : HasKey(v, k)' => HasKey(v, k)
  BY <1>0, SettleFacts
<1>2. \A v \in Careful : v \in Wishes  BY ClientAssumption DEF Wishes
<1>3. /\ \A v \in Careful : \A j, k \in 1..keys' : HasKey(v, j)' /\ HasKey(v, k)' => j = k
      /\ \A v \in Careful, k \in 1..keys' :
           HasKey(v, k)' => (<<"create", k>> \in DOMAIN done' <=> made'[v] = 1)
  BY <1>0, <1>1, <1>2 DEF OneKey
<1>4. \A v \in Careful : v \in shown' => made'[v] = 1
  <2>. SUFFICES ASSUME NEW v \in Careful, v \in shown' PROVE made[v] = 1
    BY <1>1
  <2>1. CASE v \in shown  BY <2>1, <1>0 DEF OneKey
  <2>2. CASE v \notin shown
    <3>1. v = w /\ page'[w] = Nothing  BY <2>2, <1>1
    <3>. QED  BY <3>1 DEF CreateLetGo
  <2>. QED  BY <2>1, <2>2
<1>5. \A v \in Careful : page'[v] = Nothing /\ ~closed' /\ v \notin shown' =>
         made'[v] = 0 /\ \A m \in net' : m.wish # v
  BY <1>0, <1>1, <1>2 DEF OneKey, CreateLetGo
<1>6. \A v \in Careful : reply'[v] # Nothing /\ reply'[v].what = "ok" => made'[v] = 1
  BY <1>0, <1>1, <1>2 DEF OneKey
<1>7. \A v \in Careful : call'[v] # Nothing /\ ~call'[v].earlier =>
         /\ \A m \in net' : m.wish = v => m.live
         /\ reply'[v] # Nothing /\ reply'[v].what = "refused" => made'[v] = 0
         /\ \A m \in net' : m.wish = v => made'[v] = 0
  BY <1>0, <1>1, <1>2 DEF OneKey
<1>. QED  BY <1>0, <1>1, <1>3, <1>4, <1>5, <1>6, <1>7 DEF OneKey

-----------------------------------------------------------------------------
(* Nobody waits for an answer any more *)

\* The calls of the wishes W end; their requests go on without anyone waiting.
Deserts(W) ==
  /\ W \subseteq Wishes
  /\ \/ page' = page /\ closed' = closed
     \/ page' = [w \in Wishes |-> Nothing] /\ closed' /\ W = Wishes
  /\ call' = [w \in Wishes |-> IF w \in W THEN Nothing ELSE call[w]]
  /\ reply' = [w \in Wishes |-> IF w \in W THEN Nothing ELSE reply[w]]
  /\ net' = {IF m.wish \in W THEN [m EXCEPT !.live = FALSE] ELSE m : m \in net}
  /\ faults' \in 0..MaxFaults
  /\ UNCHANGED <<shown, keys, server>>

LEMMA DesertFacts ==
  ASSUME Types, NEW W, Deserts(W)
  PROVE  /\ \A v \in Wishes : IF v \in W THEN call'[v] = Nothing /\ reply'[v] = Nothing
                              ELSE call'[v] = call[v] /\ reply'[v] = reply[v]
         /\ \A v \in Wishes : page'[v] = Nothing \/ (page'[v] = page[v] /\ closed' = closed)
         /\ \A v \in Wishes : page'[v] = Nothing => closed' \/ (page[v] = Nothing /\ closed' = closed)
         /\ \A v \in Wishes : v \notin W => page'[v] = page[v] /\ closed' = closed
         /\ \A n \in net' : n \in Requests /\
              \E m \in net : /\ n.wish = m.wish /\ n.step = m.step /\ n.key = m.key /\ n.sess = m.sess
                             /\ n.live => n = m /\ n.wish \notin W
         /\ \A v \in Wishes : v \notin W =>
              \A n \in net' : n.wish = v => n \in net
         /\ sessions' = sessions /\ done' = done /\ made' = made /\ shown' = shown /\ keys' = keys
<1>1. \A v \in Wishes : IF v \in W THEN call'[v] = Nothing /\ reply'[v] = Nothing
                        ELSE call'[v] = call[v] /\ reply'[v] = reply[v]
  BY DEF Deserts
<1>2. /\ \A v \in Wishes : page'[v] = Nothing \/ (page'[v] = page[v] /\ closed' = closed)
      /\ \A v \in Wishes : page'[v] = Nothing => closed' \/ (page[v] = Nothing /\ closed' = closed)
      /\ \A v \in Wishes : v \notin W => page'[v] = page[v] /\ closed' = closed
  <2>1. CASE page' = page /\ closed' = closed  BY <2>1
  <2>2. CASE page' = [w \in Wishes |-> Nothing] /\ closed' /\ W = Wishes
    <3>1. \A v \in Wishes : page'[v] = Nothing  BY <2>2
    <3>. QED  BY <3>1, <2>2
  <2>. QED  BY <2>1, <2>2 DEF Deserts
<1>3. ASSUME NEW n \in net'
      PROVE  /\ n \in Requests
             /\ \E m \in net : /\ n.wish = m.wish /\ n.step = m.step /\ n.key = m.key /\ n.sess = m.sess
                               /\ n.live => n = m /\ n.wish \notin W
             /\ n.wish \notin W => n \in net
  <2>1. PICK m \in net : n = IF m.wish \in W THEN [m EXCEPT !.live = FALSE] ELSE m
    BY <1>3 DEF Deserts
  <2>2. m \in Requests  BY DEF Types
  <2>3. CASE m.wish \notin W  BY <2>1, <2>2, <2>3
  <2>4. CASE m.wish \in W
    <3>1. n = [m EXCEPT !.live = FALSE]  BY <2>1, <2>4
    <3>2. n \in Requests  BY <3>1, <2>2 DEF Requests
    <3>3. n.wish = m.wish /\ n.step = m.step /\ n.key = m.key /\ n.sess = m.sess /\ ~n.live
      BY <3>1, <2>2 DEF Requests
    <3>. QED  BY <3>2, <3>3, <2>4
  <2>. QED  BY <2>3, <2>4
<1>4. sessions' = sessions /\ done' = done /\ made' = made /\ shown' = shown /\ keys' = keys
  BY DEF Deserts, server
<1>. QED  BY <1>1, <1>2, <1>3, <1>4

LEMMA DesertKeeps ==
  ASSUME UploadInv, NEW W, Deserts(W)
  PROVE  UploadInv'
<1>0. Types /\ Waiting /\ OwnKeys /\ Records /\ OneSession /\ Answers  BY DEF UploadInv
<1>1. /\ \A v \in Wishes : IF v \in W THEN call'[v] = Nothing /\ reply'[v] = Nothing
                           ELSE call'[v] = call[v] /\ reply'[v] = reply[v]
      /\ \A v \in Wishes : page'[v] = Nothing \/ (page'[v] = page[v] /\ closed' = closed)
      /\ \A v \in Wishes : page'[v] = Nothing => closed' \/ (page[v] = Nothing /\ closed' = closed)
      /\ \A v \in Wishes : v \notin W => page'[v] = page[v] /\ closed' = closed
      /\ sessions' = sessions /\ done' = done /\ made' = made /\ shown' = shown /\ keys' = keys
  BY <1>0, DesertFacts
<1>2. \A n \in net' : n \in Requests /\
              \E m \in net : /\ n.wish = m.wish /\ n.step = m.step /\ n.key = m.key /\ n.sess = m.sess
                             /\ n.live => n = m /\ n.wish \notin W
  BY <1>0, DesertFacts
<1>3. /\ \A v : SessionsOf(v)' = SessionsOf(v) /\ Dead(v)' = Dead(v) /\ Finalized(v)' = Finalized(v)
      /\ \A m : Known(m)' = Known(m) /\ Unknown(m)' = Unknown(m)
  BY <1>1 DEF SessionsOf, Dead, Finalized, Known, Unknown
<1>4. \A m \in net' \cup net : m.wish \in Wishes  BY <1>0, <1>2 DEF Types, Requests
<1>5. \A v \in Wishes : \A k : HasKey(v, k)' => HasKey(v, k)
  <2>. SUFFICES ASSUME NEW v \in Wishes, NEW k, HasKey(v, k)' PROVE HasKey(v, k)  OBVIOUS
  <2>1. CASE page'[v] # Nothing /\ page'[v].key = k  BY <2>1, <1>1 DEF HasKey
  <2>2. CASE \E n \in net' : n.wish = v /\ n.key = k  BY <2>2, <1>2 DEF HasKey
  <2>. QED  BY <2>1, <2>2 DEF HasKey
<1>6. Types'
  <2>1. Commands' = Commands /\ Messages' = Messages /\ Requests' = Requests
    BY <1>1 DEF Commands, Messages, Requests
  <2>2. page' \in [Wishes -> Commands] /\ call' \in [Wishes -> Calls]
        /\ reply' \in [Wishes -> {Nothing} \cup Messages] /\ closed' \in BOOLEAN
    BY <1>0 DEF Types, Deserts, Commands, Calls
  <2>3. net' \subseteq Requests  BY <1>2
  <2>4. faults' \in 0..MaxFaults  BY DEF Deserts
  <2>. QED  BY <1>0, <1>1, <2>1, <2>2, <2>3, <2>4 DEF Types
<1>7. Waiting'
  <2>1. \A v \in Wishes :
          /\ call'[v] # Nothing =>
               /\ page'[v] # Nothing
               /\ (call'[v].step = "create") = (v \in Creates)
               /\ call'[v].step \in InSession => page'[v].sess # 0
          /\ reply'[v] # Nothing => call'[v] # Nothing
          /\ page'[v] # Nothing => ~closed' /\ v \notin shown'
          /\ page'[v] # Nothing /\ page'[v].sent => page'[v].sess # 0
    BY <1>0, <1>1 DEF Waiting
  <2>2. ASSUME NEW n \in net'
        PROVE  /\ (n.step = "create") = (n.wish \in Creates)
               /\ n.step \in InSession => n.sess # 0 /\ sessions'[n.sess].file = n.wish
               /\ n.live =>
                    /\ call'[n.wish] # Nothing /\ call'[n.wish].step = n.step
                    /\ reply'[n.wish] = Nothing
                    /\ n.key = page'[n.wish].key
                    /\ n.step \in InSession => n.sess = page'[n.wish].sess
    <3>1. PICK m \in net : /\ n.wish = m.wish /\ n.step = m.step /\ n.key = m.key /\ n.sess = m.sess
                           /\ n.live => n = m /\ n.wish \notin W
      BY <1>2
    <3>. QED  BY <3>1, <1>0, <1>1, <1>4 DEF Waiting
  <2>3. \A m, o \in net' : m.live /\ o.live /\ m.wish = o.wish => m = o
    BY <1>0, <1>2 DEF Waiting
  <2>. QED  BY <2>1, <2>2, <2>3 DEF Waiting
<1>8. OwnKeys'
  <2>1. \A m, o \in net' : m.key = o.key => m.wish = o.wish
    BY <1>0, <1>2 DEF OwnKeys
  <2>2. \A m \in net', v \in Wishes : page'[v] # Nothing /\ page'[v].key = m.key => m.wish = v
    BY <1>0, <1>1, <1>2 DEF OwnKeys
  <2>3. \A v, u \in Wishes :
          page'[v] # Nothing /\ page'[u] # Nothing /\ page'[v].key = page'[u].key => v = u
    BY <1>0, <1>1 DEF OwnKeys
  <2>. QED  BY <2>1, <2>2, <2>3 DEF OwnKeys
<1>9. Records'
  BY <1>0, <1>1, <1>3, <1>5 DEF Records
<1>10. OneSession'
  <2>1. \A v \in Files : page'[v] = Nothing /\ ~closed' /\ v \notin shown' => Dead(v)'
    BY <1>0, <1>1, <1>3 DEF OneSession, Wishes
  <2>2. \A v \in Files : \A r, s \in SessionsOf(v)' :
          sessions'[r].status # "expired" /\ sessions'[s].status # "expired" => r = s
    BY <1>0, <1>1, <1>3 DEF OneSession
  <2>3. \A v \in Wishes : page'[v] # Nothing =>
          /\ \A s \in SessionsOf(v)' : sessions'[s].status # "expired" =>
               <<"begin", page'[v].key>> \in DOMAIN done' /\ s = done'[<<"begin", page'[v].key>>]
          /\ page'[v].sess # 0 =>
               <<"begin", page'[v].key>> \in DOMAIN done'
               /\ page'[v].sess = done'[<<"begin", page'[v].key>>]
    <3>. SUFFICES ASSUME NEW v \in Wishes, page'[v] # Nothing
                  PROVE  /\ \A s \in SessionsOf(v) : sessions[s].status # "expired" =>
                              <<"begin", page'[v].key>> \in DOMAIN done /\ s = done[<<"begin", page'[v].key>>]
                         /\ page'[v].sess # 0 =>
                              <<"begin", page'[v].key>> \in DOMAIN done
                              /\ page'[v].sess = done[<<"begin", page'[v].key>>]
      BY <1>1, <1>3
    <3>1. page'[v] = page[v]  BY <1>1
    <3>. QED  BY <3>1, <1>0 DEF OneSession
  <2>4. ASSUME NEW n \in net', Unknown(n)'
        PROVE  /\ Dead(n.wish)'
               /\ IF page'[n.wish] = Nothing THEN closed' ELSE n.key = page'[n.wish].key
    <3>1. PICK m \in net : n.wish = m.wish /\ n.step = m.step /\ n.key = m.key
      BY <1>2
    <3>2. Unknown(m)  BY <2>4, <3>1, <1>1 DEF Unknown, Known
    <3>3. Dead(m.wish)  BY <3>2, <1>0 DEF OneSession
    <3>4. IF page[n.wish] = Nothing THEN closed ELSE n.key = page[n.wish].key
      BY <3>1, <3>2, <1>0 DEF OneSession
    <3>5. n.wish \in Wishes  BY <1>4
    <3>6. Dead(n.wish)  BY <3>1, <3>3 DEF Dead, SessionsOf
    <3>. QED  BY <3>4, <3>5, <3>6, <1>1, <1>3
  <2>5. ASSUME NEW n \in net', NEW o \in net', Unknown(n)', Unknown(o)', n.wish = o.wish
        PROVE  n.key = o.key
    <3>1. PICK m \in net : n.wish = m.wish /\ n.step = m.step /\ n.key = m.key
      BY <1>2
    <3>2. PICK l \in net : o.wish = l.wish /\ o.step = l.step /\ o.key = l.key
      BY <1>2
    <3>3. Unknown(m) /\ Unknown(l)  BY <2>5, <3>1, <3>2, <1>1 DEF Unknown, Known
    <3>. QED  BY <2>5, <3>1, <3>2, <3>3, <1>0 DEF OneSession
  <2>. QED  BY <2>1, <2>2, <2>3, <2>4, <2>5 DEF OneSession
<1>11. Answers'
  <2>. SUFFICES ASSUME NEW v \in Files
                PROVE  /\ v \in shown => Finalized(v)
                       /\ Answered(v, "finalize", "ok")' => Finalized(v)
                       /\ Answered(v, "begin", "ok")' =>
                            <<"begin", page'[v].key>> \in DOMAIN done
                            /\ reply'[v].sess = done[<<"begin", page'[v].key>>]
                       /\ Answered(v, "confirm", "expired")' => sessions[page'[v].sess].status = "expired"
    BY <1>1, <1>3 DEF Answers
  <2>1. v \in Wishes  BY DEF Wishes
  <2>2. CASE v \in W  BY <2>1, <2>2, <1>0, <1>1 DEF Answered, Answers
  <2>3. CASE v \notin W  BY <2>1, <2>3, <1>0, <1>1 DEF Answers, Answered
  <2>. QED  BY <2>2, <2>3
<1>. QED  BY <1>6, <1>7, <1>8, <1>9, <1>10, <1>11 DEF UploadInv

LEMMA DesertOneKey ==
  ASSUME ClientInv, NEW W, Deserts(W)
  PROVE  OneKey'
<1>0. Types /\ Waiting /\ OneKey  BY DEF ClientInv, UploadInv
<1>1. /\ \A v \in Wishes : IF v \in W THEN call'[v] = Nothing /\ reply'[v] = Nothing
                           ELSE call'[v] = call[v] /\ reply'[v] = reply[v]
      /\ \A v \in Wishes : page'[v] = Nothing \/ (page'[v] = page[v] /\ closed' = closed)
      /\ \A v \in Wishes : page'[v] = Nothing => closed' \/ (page[v] = Nothing /\ closed' = closed)
      /\ \A v \in Wishes : v \notin W => \A n \in net' : n.wish = v => n \in net
      /\ done' = done /\ made' = made /\ shown' = shown /\ keys' = keys
  BY <1>0, DesertFacts
<1>2. \A n \in net' : \E m \in net : n.wish = m.wish /\ n.key = m.key
  BY <1>0, DesertFacts
<1>3. \A v \in Careful : v \in Wishes  BY ClientAssumption DEF Wishes
<1>4. \A v \in Wishes : \A k : HasKey(v, k)' => HasKey(v, k)
  <2>. SUFFICES ASSUME NEW v \in Wishes, NEW k, HasKey(v, k)' PROVE HasKey(v, k)  OBVIOUS
  <2>1. CASE page'[v] # Nothing /\ page'[v].key = k  BY <2>1, <1>1 DEF HasKey
  <2>2. CASE \E n \in net' : n.wish = v /\ n.key = k  BY <2>2, <1>2 DEF HasKey
  <2>. QED  BY <2>1, <2>2 DEF HasKey
<1>5. /\ \A v \in Careful : \A j, k \in 1..keys' : HasKey(v, j)' /\ HasKey(v, k)' => j = k
      /\ \A v \in Careful, k \in 1..keys' :
           HasKey(v, k)' => (<<"create", k>> \in DOMAIN done' <=> made'[v] = 1)
  BY <1>0, <1>1, <1>3, <1>4 DEF OneKey
<1>6. \A v \in Careful : page'[v] = Nothing /\ ~closed' /\ v \notin shown' =>
         made'[v] = 0 /\ \A m \in net' : m.wish # v
  BY <1>0, <1>1, <1>2, <1>3 DEF OneKey
<1>7. \A v \in Careful : reply'[v] # Nothing /\ reply'[v].what = "ok" => made'[v] = 1
  BY <1>0, <1>1, <1>3 DEF OneKey
<1>8. \A v \in Careful : call'[v] # Nothing /\ ~call'[v].earlier =>
         /\ \A m \in net' : m.wish = v => m.live
         /\ reply'[v] # Nothing /\ reply'[v].what = "refused" => made'[v] = 0
         /\ \A m \in net' : m.wish = v => made'[v] = 0
  BY <1>0, <1>1, <1>3 DEF OneKey
<1>. QED  BY <1>0, <1>1, <1>5, <1>6, <1>7, <1>8 DEF OneKey

-----------------------------------------------------------------------------
(* The server takes a request *)

\* What an answer says is so.
Fits(m, message) ==
  /\ m.step = "finalize" /\ message.what = "ok" => Finalized(m.wish)
  /\ m.step = "begin" /\ message.what = "ok" =>
       <<"begin", m.key>> \in DOMAIN done /\ message.sess = done[<<"begin", m.key>>]
  /\ m.step = "confirm" /\ message.what = "expired" => sessions[m.sess].status = "expired"

\* A step of the server: sessions stay with their file and end for good,
\* idempotency records are only added, for a key whose request is under way,
\* and whoever waits for the request that was taken may be answered.
Serves ==
  /\ UNCHANGED <<page, call, shown, keys, closed>>
  /\ net' \subseteq net
  /\ sessions' \in Seq(Sessions) /\ Len(sessions) <= Len(sessions')
  /\ \A s \in DOMAIN sessions :
       /\ sessions'[s].file = sessions[s].file
       /\ sessions[s].status # "open" => sessions'[s].status = sessions[s].status
  /\ DOMAIN done \subseteq DOMAIN done' /\ DOMAIN done' \subseteq Steps \X (1..keys)
  /\ \A k \in DOMAIN done : done'[k] = done[k]
  /\ \A k \in DOMAIN done' : done'[k] \in 0..Len(sessions')
  /\ \A k : <<"begin", k>> \in DOMAIN done' \ DOMAIN done =>
       \E m \in net : m.key = k /\ done'[<<"begin", k>>] \in SessionsOf(m.wish)'
  /\ \A k : <<"finalize", k>> \in DOMAIN done' \ DOMAIN done =>
       \E m \in net : /\ m.key = k /\ done'[<<"finalize", k>>] \in SessionsOf(m.wish)'
                      /\ sessions'[done'[<<"finalize", k>>]].status = "finalized"
  /\ made' \in [Wishes -> Nat] /\ faults' \in 0..MaxFaults
  /\ \/ reply' = reply
     \/ \E m \in net, message \in Messages' :
          /\ m.live /\ m \notin net' /\ Fits(m, message)'
          /\ reply' = [reply EXCEPT ![m.wish] = message]

LEMMA ServeFacts ==
  ASSUME Types, Serves
  PROVE  /\ \A w : SessionsOf(w) \subseteq SessionsOf(w)' /\ (Finalized(w) => Finalized(w)')
         /\ \A w : \A k : HasKey(w, k)' => HasKey(w, k)
         /\ DOMAIN sessions \subseteq DOMAIN sessions'
         /\ \A m : Unknown(m)' => Unknown(m)
         /\ \A m \in net : m.wish \in Wishes /\ m.key \in 1..keys
<1>1. DOMAIN sessions = 1..Len(sessions) /\ DOMAIN sessions' = 1..Len(sessions')
      /\ Len(sessions) \in Nat /\ Len(sessions') \in Nat
  BY DEF Types, Serves
<1>2. DOMAIN sessions \subseteq DOMAIN sessions'  BY <1>1 DEF Serves
<1>3. \A w : SessionsOf(w) \subseteq SessionsOf(w)'
  BY <1>2 DEF SessionsOf, Serves
<1>4. \A w : Finalized(w) => Finalized(w)'
  <2>. SUFFICES ASSUME NEW w, NEW s \in SessionsOf(w), sessions[s].status = "finalized"
                PROVE  \E t \in SessionsOf(w)' : sessions'[t].status = "finalized"
    BY DEF Finalized
  <2>1. s \in SessionsOf(w)'  BY <1>3
  <2>2. sessions'[s].status = "finalized"  BY DEF SessionsOf, Serves
  <2>. QED  BY <2>1, <2>2
<1>5. \A w : \A k : HasKey(w, k)' => HasKey(w, k)
  BY DEF HasKey, Serves
<1>6. \A m : Unknown(m)' => Unknown(m)
  BY DEF Unknown, Known, Serves
<1>7. \A m \in net : m.wish \in Wishes /\ m.key \in 1..keys
  BY DEF Types, Requests
<1>. QED  BY <1>2, <1>3, <1>4, <1>5, <1>6, <1>7

LEMMA ServeTypes ==
  ASSUME Types, Serves
  PROVE  Types'
<1>1. Len(sessions) \in Nat /\ Len(sessions') \in Nat /\ 0..Len(sessions) \subseteq 0..Len(sessions')
  BY DEF Types, Serves
<1>2. keys' = keys  BY DEF Serves
<1>3. Commands \subseteq Commands' /\ Messages \subseteq Messages' /\ Requests \subseteq Requests'
  BY <1>1, <1>2 DEF Commands, Messages, Requests
<1>4. page' \in [Wishes -> Commands'] /\ call' \in [Wishes -> Calls] /\ net' \subseteq Requests'
  BY <1>3 DEF Types, Serves
<1>5. reply' \in [Wishes -> {Nothing} \cup Messages']
  <2>1. reply \in [Wishes -> {Nothing} \cup Messages']  BY <1>3 DEF Types
  <2>2. reply' = reply \/ \E m \in net, message \in Messages' : reply' = [reply EXCEPT ![m.wish] = message]
    BY DEF Serves
  <2>. QED  BY <2>1, <2>2
<1>. QED  BY <1>2, <1>4, <1>5 DEF Types, Serves

LEMMA ServeWaits ==
  ASSUME UploadInv, Serves
  PROVE  Waiting' /\ OwnKeys' /\ Records'
<1>0. Types /\ Waiting /\ OwnKeys /\ Records  BY DEF UploadInv
<1>1. /\ \A w : SessionsOf(w) \subseteq SessionsOf(w)'
      /\ \A w : \A k : HasKey(w, k)' => HasKey(w, k)
      /\ \A m \in net : m.wish \in Wishes /\ m.key \in 1..keys
  BY <1>0, ServeFacts
<1>2. /\ page' = page /\ call' = call /\ shown' = shown /\ keys' = keys /\ closed' = closed
      /\ net' \subseteq net
  BY DEF Serves
<1>3. Waiting'
  <2>1. \A m \in net' : m.step \in InSession => m.sess # 0 /\ sessions'[m.sess].file = m.wish
    <3>. SUFFICES ASSUME NEW m \in net, m.step \in InSession
                  PROVE  m.sess # 0 /\ sessions'[m.sess].file = m.wish
      BY <1>2
    <3>1. m.sess # 0 /\ sessions[m.sess].file = m.wish /\ m.sess \in 0..Len(sessions)
      BY <1>0 DEF Types, Requests, Waiting
    <3>2. m.sess \in DOMAIN sessions  BY <3>1, <1>0, Domains
    <3>. QED  BY <3>1, <3>2 DEF Serves
  <2>2. ASSUME NEW v \in Wishes, reply'[v] # Nothing
        PROVE  call'[v] # Nothing /\ \A m \in net' : m.wish = v => ~m.live
    <3>1. CASE reply' = reply
      BY <2>2, <3>1, <1>0, <1>2 DEF Waiting
    <3>2. CASE \E m \in net, message \in Messages' :
                 m.live /\ m \notin net' /\ reply' = [reply EXCEPT ![m.wish] = message]
      <4>1. PICK m \in net, message \in Messages' :
                 m.live /\ m \notin net' /\ reply' = [reply EXCEPT ![m.wish] = message]
        BY <3>2
      <4>2. CASE v = m.wish
        BY <4>1, <4>2, <1>0, <1>2 DEF Waiting
      <4>3. CASE v # m.wish
        <5>1. reply'[v] = reply[v]  BY <4>1, <4>3, <1>0 DEF Types
        <5>. QED  BY <5>1, <2>2, <1>0, <1>2 DEF Waiting
      <4>. QED  BY <4>2, <4>3
    <3>. QED  BY <3>1, <3>2 DEF Serves
  <2>3. \A v \in Wishes :
          /\ call'[v] # Nothing =>
               /\ page'[v] # Nothing
               /\ (call'[v].step = "create") = (v \in Creates)
               /\ call'[v].step \in InSession => page'[v].sess # 0
          /\ page'[v] # Nothing => ~closed' /\ v \notin shown'
          /\ page'[v] # Nothing /\ page'[v].sent => page'[v].sess # 0
    BY <1>0, <1>2 DEF Waiting
  <2>4. \A m \in net' :
          /\ (m.step = "create") = (m.wish \in Creates)
          /\ m.live =>
               /\ call'[m.wish] # Nothing /\ call'[m.wish].step = m.step
               /\ m.key = page'[m.wish].key
               /\ m.step \in InSession => m.sess = page'[m.wish].sess
    BY <1>0, <1>2 DEF Waiting
  <2>5. \A m \in net' : m.live => reply'[m.wish] = Nothing
    BY <1>1, <1>2, <2>2
  <2>6. \A m, n \in net' : m.live /\ n.live /\ m.wish = n.wish => m = n
    BY <1>0, <1>2 DEF Waiting
  <2>. QED  BY <2>1, <2>2, <2>3, <2>4, <2>5, <2>6 DEF Waiting
<1>4. OwnKeys'
  BY <1>0, <1>2 DEF OwnKeys
<1>5. Records'
  <2>. SUFFICES ASSUME NEW w \in Wishes, NEW k \in 1..keys, HasKey(w, k)
                PROVE  /\ <<"begin", k>> \in DOMAIN done' =>
                            done'[<<"begin", k>>] \in SessionsOf(w)'
                       /\ <<"finalize", k>> \in DOMAIN done' =>
                            /\ done'[<<"finalize", k>>] \in SessionsOf(w)'
                            /\ sessions'[done'[<<"finalize", k>>]].status = "finalized"
    BY <1>1, <1>2 DEF Records
  <2>1. \A m \in net : m.key = k => m.wish = w
    BY <1>0 DEF HasKey, OwnKeys
  <2>2. ASSUME <<"begin", k>> \in DOMAIN done' PROVE done'[<<"begin", k>>] \in SessionsOf(w)'
    <3>1. CASE <<"begin", k>> \in DOMAIN done
      BY <3>1, <1>0, <1>1 DEF Records, Serves
    <3>2. CASE <<"begin", k>> \notin DOMAIN done
      <4>1. PICK m \in net : m.key = k /\ done'[<<"begin", k>>] \in SessionsOf(m.wish)'
        BY <2>2, <3>2 DEF Serves
      <4>2. m.wish = w  BY <2>1, <4>1
      <4>. QED  BY <4>1, <4>2 DEF SessionsOf
    <3>. QED  BY <3>1, <3>2
  <2>3. ASSUME <<"finalize", k>> \in DOMAIN done'
        PROVE  /\ done'[<<"finalize", k>>] \in SessionsOf(w)'
               /\ sessions'[done'[<<"finalize", k>>]].status = "finalized"
    <3>1. CASE <<"finalize", k>> \in DOMAIN done
      <4>1. /\ done[<<"finalize", k>>] \in SessionsOf(w)
            /\ sessions[done[<<"finalize", k>>]].status = "finalized"
            /\ done'[<<"finalize", k>>] = done[<<"finalize", k>>]
        BY <3>1, <1>0 DEF Records, Serves
      <4>2. sessions'[done[<<"finalize", k>>]].status = "finalized"
        BY <4>1 DEF SessionsOf, Serves
      <4>. QED  BY <4>1, <4>2, <1>1
    <3>2. CASE <<"finalize", k>> \notin DOMAIN done
      <4>1. PICK m \in net : /\ m.key = k /\ done'[<<"finalize", k>>] \in SessionsOf(m.wish)'
                             /\ sessions'[done'[<<"finalize", k>>]].status = "finalized"
        BY <2>3, <3>2 DEF Serves
      <4>2. m.wish = w  BY <2>1, <4>1
      <4>. QED  BY <4>1, <4>2 DEF SessionsOf
    <3>. QED  BY <3>1, <3>2
  <2>. QED  BY <2>2, <2>3
<1>. QED  BY <1>3, <1>4, <1>5

LEMMA ServeAnswers ==
  ASSUME UploadInv, Serves
  PROVE  Answers'
<1>0. Types /\ Waiting /\ Answers /\ OneSession  BY DEF UploadInv
<1>1. /\ \A w : Finalized(w) => Finalized(w)'
      /\ \A m \in net : m.wish \in Wishes
  BY <1>0, ServeFacts
<1>2. page' = page /\ call' = call /\ shown' = shown
  BY DEF Serves
<1>. SUFFICES ASSUME NEW v \in Files
              PROVE  /\ v \in shown => Finalized(v)'
                     /\ Answered(v, "finalize", "ok")' => Finalized(v)'
                     /\ Answered(v, "begin", "ok")' =>
                          <<"begin", page[v].key>> \in DOMAIN done'
                          /\ reply'[v].sess = done'[<<"begin", page[v].key>>]
                     /\ Answered(v, "confirm", "expired")' => sessions'[page[v].sess].status = "expired"
  BY <1>2 DEF Answers
<1>3. v \in Wishes  BY DEF Wishes
<1>4. v \in shown => Finalized(v)'  BY <1>0, <1>1 DEF Answers
<1>5. ASSUME reply'[v] = reply[v]
      PROVE  /\ Answered(v, "finalize", "ok")' => Finalized(v)'
             /\ Answered(v, "begin", "ok")' =>
                  <<"begin", page[v].key>> \in DOMAIN done'
                  /\ reply'[v].sess = done'[<<"begin", page[v].key>>]
             /\ Answered(v, "confirm", "expired")' => sessions'[page[v].sess].status = "expired"
  <2>1. \A step, what : Answered(v, step, what)' => Answered(v, step, what)
    BY <1>5, <1>2 DEF Answered
  <2>2. Answered(v, "finalize", "ok")' => Finalized(v)'  BY <2>1, <1>0, <1>1 DEF Answers
  <2>3. Answered(v, "begin", "ok")' =>
          <<"begin", page[v].key>> \in DOMAIN done'
          /\ reply'[v].sess = done'[<<"begin", page[v].key>>]
    BY <1>5, <2>1, <1>0 DEF Answers, Serves
  <2>4. Answered(v, "confirm", "expired")' => sessions'[page[v].sess].status = "expired"
    <3>. SUFFICES ASSUME Answered(v, "confirm", "expired") PROVE sessions'[page[v].sess].status = "expired"
      BY <2>1
    <3>1. sessions[page[v].sess].status = "expired"  BY <1>0 DEF Answers
    <3>2. page[v] # Nothing /\ page[v].sess # 0
      BY <1>0, <1>3 DEF Answered, Waiting, InSession, Steps
    <3>3. page[v].sess \in DOMAIN sessions
      BY <1>0, <1>3, <3>2, Domains DEF Types, Commands
    <3>. QED  BY <3>1, <3>3 DEF Serves
  <2>. QED  BY <2>2, <2>3, <2>4
<1>6. ASSUME NEW m \in net, NEW message \in Messages', m.live, Fits(m, message)',
             reply' = [reply EXCEPT ![m.wish] = message], v = m.wish
      PROVE  /\ Answered(v, "finalize", "ok")' => Finalized(v)'
             /\ Answered(v, "begin", "ok")' =>
                  <<"begin", page[v].key>> \in DOMAIN done'
                  /\ reply'[v].sess = done'[<<"begin", page[v].key>>]
             /\ Answered(v, "confirm", "expired")' => sessions'[page[v].sess].status = "expired"
  <2>1. reply'[v] = message  BY <1>3, <1>6, <1>0 DEF Types
  <2>2. /\ call[v].step = m.step /\ m.key = page[v].key
        /\ m.step \in InSession => m.sess = page[v].sess
    BY <1>6, <1>0 DEF Waiting
  <2>3. Answered(v, "finalize", "ok")' => Finalized(v)'
    <3>1. Answered(v, "finalize", "ok")' => Finalized(m.wish)'
      BY <1>2, <1>6, <2>1, <2>2 DEF Answered, Fits
    <3>. QED  BY <3>1, <1>6 DEF Finalized, SessionsOf
  <2>4. Answered(v, "begin", "ok")' =>
          <<"begin", page[v].key>> \in DOMAIN done'
          /\ reply'[v].sess = done'[<<"begin", page[v].key>>]
    BY <1>2, <1>6, <2>1, <2>2 DEF Answered, Fits
  <2>5. Answered(v, "confirm", "expired")' => sessions'[page[v].sess].status = "expired"
    BY <1>2, <1>6, <2>1, <2>2 DEF Answered, Fits, InSession, Steps
  <2>. QED  BY <2>3, <2>4, <2>5
<1>7. CASE reply' = reply  BY <1>7, <1>4, <1>5
<1>8. CASE \E m \in net, message \in Messages' :
             /\ m.live /\ Fits(m, message)'
             /\ reply' = [reply EXCEPT ![m.wish] = message]
  <2>1. PICK m \in net, message \in Messages' :
             /\ m.live /\ Fits(m, message)'
             /\ reply' = [reply EXCEPT ![m.wish] = message]
    BY <1>8
  <2>2. CASE v = m.wish  BY <2>1, <2>2, <1>4, <1>6
  <2>3. CASE v # m.wish
    <3>1. reply'[v] = reply[v]  BY <2>1, <2>3, <1>0 DEF Types
    <3>. QED  BY <3>1, <1>4, <1>5
  <2>. QED  BY <2>2, <2>3
<1>9. reply' = reply \/ \E m \in net, message \in Messages' :
             /\ m.live /\ Fits(m, message)'
             /\ reply' = [reply EXCEPT ![m.wish] = message]
  BY DEF Serves
<1>. QED  BY <1>7, <1>8, <1>9

\* No session is begun.
LEMMA WaneKeeps ==
  ASSUME UploadInv, Serves, DOMAIN sessions' = DOMAIN sessions
  PROVE  UploadInv'
<1>0. Types /\ Waiting /\ OneSession  BY DEF UploadInv
<1>1. /\ \A w : SessionsOf(w)' = SessionsOf(w)
      /\ \A s \in DOMAIN sessions : sessions'[s].status # "expired" => sessions[s].status # "expired"
  BY DEF Serves, SessionsOf
<1>2. \A w : Dead(w) => Dead(w)'
  BY <1>1 DEF Dead, SessionsOf
<1>3. \A m : Unknown(m)' => Unknown(m)
  BY <1>0, ServeFacts
<1>4. /\ page' = page /\ shown' = shown /\ closed' = closed /\ net' \subseteq net
      /\ \A k \in DOMAIN done : k \in DOMAIN done' /\ done'[k] = done[k]
  BY DEF Serves
<1>5. OneSession'
  <2>1. \A w \in Files : page'[w] = Nothing /\ ~closed' /\ w \notin shown' => Dead(w)'
    BY <1>0, <1>2, <1>4 DEF OneSession
  <2>2. \A w \in Files : \A r, s \in SessionsOf(w)' :
          sessions'[r].status # "expired" /\ sessions'[s].status # "expired" => r = s
    <3>. SUFFICES ASSUME NEW w \in Files, NEW r \in SessionsOf(w), NEW s \in SessionsOf(w),
                         sessions'[r].status # "expired", sessions'[s].status # "expired"
                  PROVE  r = s
      BY <1>1
    <3>1. sessions[r].status # "expired" /\ sessions[s].status # "expired"
      BY <1>1 DEF SessionsOf
    <3>. QED  BY <3>1, <1>0 DEF OneSession
  <2>3. ASSUME NEW w \in Wishes, page'[w] # Nothing
        PROVE  /\ \A s \in SessionsOf(w)' : sessions'[s].status # "expired" =>
                    <<"begin", page'[w].key>> \in DOMAIN done' /\ s = done'[<<"begin", page'[w].key>>]
               /\ page'[w].sess # 0 =>
                    <<"begin", page'[w].key>> \in DOMAIN done'
                    /\ page'[w].sess = done'[<<"begin", page'[w].key>>]
    <3>1. ASSUME NEW s \in SessionsOf(w), sessions'[s].status # "expired"
          PROVE  <<"begin", page'[w].key>> \in DOMAIN done' /\ s = done'[<<"begin", page'[w].key>>]
      <4>1. sessions[s].status # "expired"  BY <3>1, <1>1 DEF SessionsOf
      <4>2. <<"begin", page[w].key>> \in DOMAIN done /\ s = done[<<"begin", page[w].key>>]
        BY <2>3, <4>1, <1>0, <1>4 DEF OneSession
      <4>. QED  BY <4>2, <1>4
    <3>2. page'[w].sess # 0 =>
            <<"begin", page'[w].key>> \in DOMAIN done'
            /\ page'[w].sess = done'[<<"begin", page'[w].key>>]
      BY <2>3, <1>0, <1>4 DEF OneSession
    <3>. QED  BY <3>1, <3>2, <1>1
  <2>4. ASSUME NEW m \in net', Unknown(m)'
        PROVE  /\ Dead(m.wish)'
               /\ IF page'[m.wish] = Nothing THEN closed' ELSE m.key = page'[m.wish].key
    <3>1. m \in net /\ Unknown(m)  BY <2>4, <1>3, <1>4
    <3>2. Dead(m.wish)  BY <3>1, <1>0 DEF OneSession
    <3>3. Dead(m.wish)'  BY <3>2, <1>2
    <3>. QED  BY <3>1, <3>3, <1>0, <1>4 DEF OneSession
  <2>5. ASSUME NEW m \in net', NEW n \in net', Unknown(m)', Unknown(n)', m.wish = n.wish
        PROVE  m.key = n.key
    <3>1. m \in net /\ n \in net /\ Unknown(m) /\ Unknown(n)  BY <2>5, <1>3, <1>4
    <3>. QED  BY <2>5, <3>1, <1>0 DEF OneSession
  <2>. QED  BY <2>1, <2>2, <2>3, <2>4, <2>5 DEF OneSession
<1>. QED  BY <1>0, <1>5, ServeTypes, ServeWaits, ServeAnswers DEF UploadInv

\* The first session of key k, and only now one that can be finalised.
Begins(m) ==
  /\ m \in net /\ m.step = "begin" /\ ~Known(m) /\ m \notin net'
  /\ sessions' = Append(sessions, [file |-> m.wish, status |-> "open", late |-> FALSE, bytes |-> <<>>])
  /\ <<"begin", m.key>> \in DOMAIN done' /\ done'[<<"begin", m.key>>] = Len(sessions) + 1

LEMMA BeginKeeps ==
  ASSUME UploadInv, Serves, NEW m, Begins(m)
  PROVE  UploadInv'
<1>0. Types /\ Waiting /\ OwnKeys /\ OneSession  BY DEF UploadInv
<1>1. Len(sessions) \in Nat /\ DOMAIN sessions = 1..Len(sessions)  BY <1>0, Domains
<1>2. /\ DOMAIN sessions' = 1..(Len(sessions) + 1)
      /\ \A s \in DOMAIN sessions : sessions'[s] = sessions[s]
      /\ sessions'[Len(sessions) + 1].file = m.wish
  BY <1>0, <1>1 DEF Types, Begins
<1>3. /\ m \in net /\ Unknown(m) /\ Dead(m.wish)
      /\ page[m.wish] # Nothing => m.key = page[m.wish].key
      /\ page[m.wish] = Nothing => closed
      /\ m.wish \in Wishes
  BY <1>0 DEF OneSession, Begins, Unknown, Types, Requests
<1>4. \A w : w # m.wish => SessionsOf(w)' = SessionsOf(w) /\ (Dead(w) => Dead(w)')
  BY <1>1, <1>2 DEF SessionsOf, Dead
<1>5. \A s \in SessionsOf(m.wish)' :
         sessions'[s].status # "expired" => s = Len(sessions) + 1
  BY <1>1, <1>2, <1>3 DEF SessionsOf, Dead
<1>6. \A n : Unknown(n)' => Unknown(n)
  BY <1>0, ServeFacts
<1>7. /\ page' = page /\ shown' = shown /\ closed' = closed /\ net' \subseteq net
      /\ \A k \in DOMAIN done : k \in DOMAIN done' /\ done'[k] = done[k]
  BY DEF Serves
<1>8. \A n \in net' : n.wish = m.wish => ~Unknown(n)'
  <2>. SUFFICES ASSUME NEW n \in net', n.wish = m.wish, Unknown(n)' PROVE FALSE  OBVIOUS
  <2>1. n \in net /\ Unknown(n)  BY <1>6, <1>7
  <2>2. n.key = m.key  BY <2>1, <1>0, <1>3 DEF OneSession
  <2>. QED  BY <2>2 DEF Unknown, Known, Begins
<1>9. OneSession'
  <2>1. \A w \in Files : page'[w] = Nothing /\ ~closed' /\ w \notin shown' => Dead(w)'
    BY <1>0, <1>3, <1>4, <1>7 DEF OneSession
  <2>2. ASSUME NEW w \in Files, NEW r \in SessionsOf(w)', NEW s \in SessionsOf(w)',
               sessions'[r].status # "expired", sessions'[s].status # "expired"
        PROVE  r = s
    <3>1. CASE w = m.wish  BY <3>1, <2>2, <1>5
    <3>2. CASE w # m.wish
      <4>1. r \in SessionsOf(w) /\ s \in SessionsOf(w)  BY <3>2, <1>4
      <4>2. sessions'[r] = sessions[r] /\ sessions'[s] = sessions[s]  BY <4>1, <1>2 DEF SessionsOf
      <4>. QED  BY <4>1, <4>2, <2>2, <1>0 DEF OneSession
    <3>. QED  BY <3>1, <3>2
  <2>3. ASSUME NEW w \in Wishes, page'[w] # Nothing
        PROVE  /\ \A s \in SessionsOf(w)' : sessions'[s].status # "expired" =>
                    <<"begin", page'[w].key>> \in DOMAIN done' /\ s = done'[<<"begin", page'[w].key>>]
               /\ page'[w].sess # 0 =>
                    <<"begin", page'[w].key>> \in DOMAIN done'
                    /\ page'[w].sess = done'[<<"begin", page'[w].key>>]
    <3>1. ASSUME NEW s \in SessionsOf(w)', sessions'[s].status # "expired"
          PROVE  <<"begin", page'[w].key>> \in DOMAIN done' /\ s = done'[<<"begin", page'[w].key>>]
      <4>1. CASE w = m.wish  BY <2>3, <3>1, <4>1, <1>3, <1>5, <1>7 DEF Begins
      <4>2. CASE w # m.wish
        <5>1. s \in SessionsOf(w) /\ sessions'[s] = sessions[s]
          BY <4>2, <1>2, <1>4 DEF SessionsOf
        <5>2. <<"begin", page[w].key>> \in DOMAIN done /\ s = done[<<"begin", page[w].key>>]
          BY <2>3, <3>1, <5>1, <1>0, <1>7 DEF OneSession
        <5>. QED  BY <5>2, <1>7
      <4>. QED  BY <4>1, <4>2
    <3>2. page'[w].sess # 0 =>
            <<"begin", page'[w].key>> \in DOMAIN done'
            /\ page'[w].sess = done'[<<"begin", page'[w].key>>]
      BY <2>3, <1>0, <1>7 DEF OneSession
    <3>. QED  BY <3>1, <3>2
  <2>4. ASSUME NEW n \in net', Unknown(n)'
        PROVE  /\ Dead(n.wish)'
               /\ IF page'[n.wish] = Nothing THEN closed' ELSE n.key = page'[n.wish].key
    <3>1. n \in net /\ Unknown(n) /\ n.wish # m.wish  BY <2>4, <1>6, <1>7, <1>8
    <3>2. Dead(n.wish)  BY <3>1, <1>0 DEF OneSession
    <3>3. Dead(n.wish)'  BY <3>1, <3>2, <1>4
    <3>. QED  BY <3>1, <3>3, <1>0, <1>7 DEF OneSession
  <2>5. ASSUME NEW n \in net', NEW o \in net', Unknown(n)', Unknown(o)', n.wish = o.wish
        PROVE  n.key = o.key
    <3>1. n \in net /\ o \in net /\ Unknown(n) /\ Unknown(o)  BY <2>5, <1>6, <1>7
    <3>. QED  BY <2>5, <3>1, <1>0 DEF OneSession
  <2>. QED  BY <2>1, <2>2, <2>3, <2>4, <2>5 DEF OneSession
<1>. QED  BY <1>0, <1>9, ServeTypes, ServeWaits, ServeAnswers DEF UploadInv

-----------------------------------------------------------------------------
(* Creates, when the server takes a request *)

\* No record is created, and a create is told it is done only if it is.
LEMMA ServeOneKey ==
  ASSUME ClientInv, Serves, made' = made,
         \A k : <<"create", k>> \in DOMAIN done' => <<"create", k>> \in DOMAIN done,
         \A w \in Careful : reply'[w] # reply[w] =>
           /\ reply'[w].what = "ok" => made[w] = 1
           /\ \E m \in net : m.wish = w
  PROVE  OneKey'
<1>0. Types /\ Waiting /\ OneKey  BY DEF ClientInv, UploadInv
<1>1. \A w : \A k : HasKey(w, k)' => HasKey(w, k)  BY <1>0, ServeFacts
<1>2. /\ page' = page /\ call' = call /\ shown' = shown /\ closed' = closed /\ keys' = keys
      /\ net' \subseteq net
      /\ DOMAIN done \subseteq DOMAIN done'
  BY DEF Serves
<1>3. /\ \A v \in Careful : \A j, k \in 1..keys' : HasKey(v, j)' /\ HasKey(v, k)' => j = k
      /\ \A v \in Careful, k \in 1..keys' :
           HasKey(v, k)' => (<<"create", k>> \in DOMAIN done' <=> made'[v] = 1)
  BY <1>0, <1>1, <1>2 DEF OneKey
<1>4. \A v \in Careful : page'[v] = Nothing /\ ~closed' /\ v \notin shown' =>
         made'[v] = 0 /\ \A m \in net' : m.wish # v
  BY <1>0, <1>2 DEF OneKey
<1>5. \A v \in Careful : reply'[v] # Nothing /\ reply'[v].what = "ok" => made'[v] = 1
  BY <1>0 DEF OneKey
<1>6. \A v \in Careful : call'[v] # Nothing /\ ~call'[v].earlier =>
         /\ \A m \in net' : m.wish = v => m.live
         /\ reply'[v] # Nothing /\ reply'[v].what = "refused" => made'[v] = 0
         /\ \A m \in net' : m.wish = v => made'[v] = 0
  BY <1>0, <1>2 DEF OneKey
<1>7. \A v \in Careful : v \in shown' => made'[v] = 1  BY <1>0, <1>2 DEF OneKey
<1>. QED  BY <1>0, <1>3, <1>4, <1>5, <1>6, <1>7 DEF OneKey

-----------------------------------------------------------------------------
(* A file's bytes *)

LEMMA RestIsSeq ==
  ASSUME NEW a \in Nat, NEW b \in Nat, a <= b
  PROVE  Rest(a, b) \in Seq(Nat) /\ Len(Rest(a, b)) = b - a
<1>1. Rest(a, b) \in [1..(b - a) -> Nat]  BY DEF Rest
<1>2. b - a \in Nat  OBVIOUS
<1>. QED  BY <1>1, <1>2

LEMMA RestJoins ==
  ASSUME NEW a \in Nat, NEW b \in Nat, a <= b
  PROVE  Rest(0, a) \o Rest(a, b) = Rest(0, b)
<1>1. /\ Rest(0, a) \in Seq(Nat) /\ Len(Rest(0, a)) = a
      /\ Rest(a, b) \in Seq(Nat) /\ Len(Rest(a, b)) = b - a
      /\ Rest(0, b) \in Seq(Nat) /\ Len(Rest(0, b)) = b
  <2>1. 0 \in Nat /\ 0 <= a /\ 0 <= b /\ a - 0 = a /\ b - 0 = b  OBVIOUS
  <2>2. Rest(0, a) \in Seq(Nat) /\ Len(Rest(0, a)) = a - 0  BY <2>1, RestIsSeq
  <2>3. Rest(0, b) \in Seq(Nat) /\ Len(Rest(0, b)) = b - 0  BY <2>1, RestIsSeq
  <2>. QED  BY <2>1, <2>2, <2>3, RestIsSeq
<1>. DEFINE r == Rest(0, a) \o Rest(a, b)
<1>2. r \in Seq(Nat) /\ Len(r) = b
  BY <1>1
<1>3. \A i \in 1..b : r[i] = IF i <= a THEN Rest(0, a)[i] ELSE Rest(a, b)[i - a]
  BY <1>1
<1>. HIDE DEF r
<1>4. ASSUME NEW i \in 1..b PROVE r[i] = i /\ Rest(0, b)[i] = i
  <2>1. Rest(0, b)[i] = i  BY DEF Rest
  <2>2. CASE i <= a
    <3>1. i \in 1..(a - 0)  BY <2>2
    <3>2. Rest(0, a)[i] = i  BY <3>1 DEF Rest
    <3>. QED  BY <1>3, <2>1, <2>2, <3>2
  <2>3. CASE ~(i <= a)
    <3>1. i - a \in 1..(b - a)  BY <2>3
    <3>2. Rest(a, b)[i - a] = a + (i - a)  BY <3>1 DEF Rest
    <3>. QED  BY <1>3, <2>1, <2>3, <3>2
  <2>. QED  BY <2>2, <2>3
<1>5. r = Rest(0, b)
  BY <1>1, <1>2, <1>4
<1>. QED  BY <1>5 DEF r

LEMMA RestOfNothing == Rest(0, 0) = << >>
<1>1. Rest(0, 0) \in Seq(Nat) /\ Len(Rest(0, 0)) = 0  BY RestIsSeq
<1>. QED  BY <1>1, EmptySeq

-----------------------------------------------------------------------------
(* The handlers are steps of the server *)

LEMMA RequestFacts ==
  ASSUME Types, Waiting, NEW m \in net
  PROVE  /\ m.wish \in Wishes /\ m.step \in Steps /\ m.key \in 1..keys
         /\ (m.step = "create") = (m.wish \in Creates)
         /\ HasKey(m.wish, m.key)
         /\ m.from \in 0..Size /\ m.live \in BOOLEAN
         /\ m.step \in InSession =>
              /\ m.sess \in DOMAIN sessions /\ m.sess \in SessionsOf(m.wish)
              /\ sessions[m.sess] \in Sessions
<1>1. m \in Requests  BY DEF Types
<1>2. m.step \in InSession => m.sess \in DOMAIN sessions /\ sessions[m.sess].file = m.wish
  BY <1>1, Domains DEF Requests, Waiting
<1>. QED  BY <1>1, <1>2, Domains DEF Requests, Waiting, HasKey, SessionsOf

\* Who takes a request answers whoever waits for it.
LEMMA AnswerGiven ==
  ASSUME Types, NEW m \in net, NEW message \in Messages', Answer(m, message), Fits(m, message)'
  PROVE  /\ net' \subseteq net /\ m \notin net'
         /\ \/ reply' = reply
            \/ \E n \in net, msg \in Messages' :
                 /\ n.live /\ n \notin net' /\ Fits(n, msg)'
                 /\ reply' = [reply EXCEPT ![n.wish] = msg]
<1>1. net' \subseteq net /\ m \notin net'  BY DEF Answer
<1>2. CASE m.live  BY <1>1, <1>2 DEF Answer
<1>3. CASE ~m.live  BY <1>1, <1>3 DEF Answer
<1>. QED  BY <1>1, <1>2, <1>3

\* The reply to a create says what was answered.
LEMMA AnswerReply ==
  ASSUME Types, NEW m \in net, NEW message, Answer(m, message), NEW w \in Wishes, reply'[w] # reply[w]
  PROVE  w = m.wish /\ reply'[w] = message
BY DEF Answer, Types, Requests

\* The sessions and the records stay as they are.
LEMMA StillServes ==
  ASSUME Types, Untouched, UNCHANGED <<sessions, done>>, net' \subseteq net,
         made' \in [Wishes -> Nat], faults' \in 0..MaxFaults,
         \/ reply' = reply
         \/ \E m \in net, message \in Messages' :
              /\ m.live /\ m \notin net' /\ Fits(m, message)'
              /\ reply' = [reply EXCEPT ![m.wish] = message]
  PROVE  Serves /\ DOMAIN sessions' = DOMAIN sessions
BY DEF Serves, Untouched, Types

\* A session that is open changes.
LEMMA SessionServes ==
  ASSUME Types, Untouched, UNCHANGED done, net' \subseteq net,
         made' \in [Wishes -> Nat], faults' \in 0..MaxFaults,
         \/ reply' = reply
         \/ \E m \in net, message \in Messages' :
              /\ m.live /\ m \notin net' /\ Fits(m, message)'
              /\ reply' = [reply EXCEPT ![m.wish] = message],
         NEW s \in DOMAIN sessions, NEW r \in Sessions,
         sessions[s].status = "open", r.file = sessions[s].file,
         sessions' = [sessions EXCEPT ![s] = r]
  PROVE  Serves /\ DOMAIN sessions' = DOMAIN sessions
<1>1. /\ sessions' \in Seq(Sessions) /\ Len(sessions') = Len(sessions)
      /\ DOMAIN sessions' = DOMAIN sessions
      /\ \A t \in DOMAIN sessions : sessions'[t] = IF t = s THEN r ELSE sessions[t]
  BY DEF Types
<1>2. Len(sessions) \in Nat  BY Domains
<1>. QED  BY <1>1, <1>2 DEF Serves, Untouched, Types

LEMMA UploadOneKey ==
  ASSUME ClientInv, Serves, made' = made, NEW m \in net, m.step # "create",
         NEW message, Answer(m, message) \/ reply' = reply,
         DOMAIN done' \subseteq DOMAIN done \cup {<<m.step, m.key>>}
  PROVE  OneKey'
<1>0. Types /\ Waiting  BY DEF ClientInv, UploadInv
<1>1. \A k : <<"create", k>> \in DOMAIN done' => <<"create", k>> \in DOMAIN done
  OBVIOUS
<1>2. m.wish \notin Creates  BY <1>0, RequestFacts
<1>3. \A w \in Careful : reply'[w] = reply[w]
  BY <1>0, <1>2, AnswerReply, ClientAssumption DEF Wishes
<1>. QED  BY <1>1, <1>3, ServeOneKey

LEMMA CreateHandled ==
  ASSUME UploadInv, NEW m \in net, HandleCreate(m)
  PROVE  Serves /\ DOMAIN sessions' = DOMAIN sessions
<1>0. Types /\ Waiting  BY DEF UploadInv
<1>1. m.step = "create" /\ m.wish \in Wishes /\ m.key \in 1..keys
  BY <1>0, RequestFacts DEF HandleCreate
<1>2. Message("ok", 0, 0) \in Messages' /\ Fits(m, Message("ok", 0, 0))'
  <2>1. Len(sessions') \in Nat /\ Size \in Nat
    BY <1>0, Domains, ClientAssumption DEF HandleCreate
  <2>. QED  BY <2>1, <1>1 DEF Message, Messages, Whats, Fits
<1>3. /\ net' \subseteq net
      /\ \/ reply' = reply
         \/ \E n \in net, msg \in Messages' :
              /\ n.live /\ n \notin net' /\ Fits(n, msg)'
              /\ reply' = [reply EXCEPT ![n.wish] = msg]
  BY <1>0, <1>2, AnswerGiven DEF HandleCreate, Says
<1>4. sessions' = sessions /\ faults' \in 0..MaxFaults
  BY <1>0 DEF HandleCreate, Types
<1>5. CASE Known(m) /\ UNCHANGED <<done, made>>
  <2>1. made' \in [Wishes -> Nat]  BY <1>0, <1>5 DEF Types
  <2>. QED  BY <1>0, <1>3, <1>4, <1>5, <2>1, StillServes DEF HandleCreate
<1>6. CASE ~Known(m) /\ Remember(m, 0) /\ made' = [made EXCEPT ![m.wish] = @ + 1]
  <2>1. made' \in [Wishes -> Nat]  BY <1>0, <1>1, <1>6 DEF Types
  <2>2. /\ DOMAIN done' = DOMAIN done \cup {<<"create", m.key>>}
        /\ \A k \in DOMAIN done' : done'[k] = IF k = <<"create", m.key>> THEN 0 ELSE done[k]
        /\ <<"create", m.key>> \notin DOMAIN done
    BY <1>1, <1>6 DEF Remember, Known
  <2>3. DOMAIN done' \subseteq Steps \X (1..keys)
    BY <1>0, <1>1, <2>2 DEF Types, Steps
  <2>4. Len(sessions) \in Nat  BY <1>0, Domains
  <2>5. \A k : /\ <<"begin", k>> \notin DOMAIN done' \ DOMAIN done
               /\ <<"finalize", k>> \notin DOMAIN done' \ DOMAIN done
    BY <2>2
  <2>6. /\ \A k \in DOMAIN done : k \in DOMAIN done' /\ done'[k] = done[k]
        /\ \A k \in DOMAIN done' : done'[k] \in 0..Len(sessions')
    <3>1. \A k \in DOMAIN done : done[k] \in 0..Len(sessions)  BY <1>0 DEF Types
    <3>2. \A k \in DOMAIN done : k # <<"create", m.key>>  BY <2>2
    <3>3. 0 \in 0..Len(sessions) /\ sessions' = sessions  BY <1>4, <2>4
    <3>4. \A k \in DOMAIN done : k \in DOMAIN done' /\ done'[k] = done[k]
      BY <2>2, <3>2
    <3>5. \A k \in DOMAIN done' : k = <<"create", m.key>> \/ k \in DOMAIN done
      BY <2>2
    <3>6. \A k \in DOMAIN done' : done'[k] \in 0..Len(sessions)
      BY <2>2, <3>1, <3>3, <3>4, <3>5
    <3>. QED  BY <3>3, <3>4, <3>6
  <2>7. sessions' \in Seq(Sessions) /\ Len(sessions) <= Len(sessions')
    BY <1>0, <1>4, <2>4 DEF Types
  <2>. QED  BY <1>3, <1>4, <2>1, <2>3, <2>5, <2>6, <2>7 DEF Serves, HandleCreate, Untouched
<1>. QED  BY <1>5, <1>6 DEF HandleCreate

LEMMA CreateOneKey ==
  ASSUME ClientInv, NEW m \in net, HandleCreate(m)
  PROVE  OneKey'
<1>0. UploadInv /\ Types /\ Waiting /\ OwnKeys /\ OneKey  BY DEF ClientInv, UploadInv
<1>1. /\ m.step = "create" /\ m.wish \in Creates /\ m.wish \in Wishes /\ m.key \in 1..keys
      /\ HasKey(m.wish, m.key)
  BY <1>0, RequestFacts DEF HandleCreate
<1>2. Serves  BY <1>0, CreateHandled
<1>3. \A w \in Wishes : reply'[w] # reply[w] => w = m.wish /\ reply'[w].what = "ok"
  <2>. SUFFICES ASSUME NEW w \in Wishes, reply'[w] # reply[w]
                PROVE  w = m.wish /\ reply'[w].what = "ok"
    OBVIOUS
  <2>1. w = m.wish /\ reply'[w] = Message("ok", 0, 0)
    BY <1>0, AnswerReply DEF HandleCreate, Says
  <2>. QED  BY <2>1 DEF Message
<1>4. \A v \in Careful : v \in Wishes  BY ClientAssumption DEF Wishes
<1>5. CASE Known(m) /\ UNCHANGED <<done, made>>
  <2>1. m.wish \in Careful => made[m.wish] = 1  BY <1>0, <1>1, <1>5 DEF OneKey, Known
  <2>2. \A w \in Careful : reply'[w] # reply[w] =>
           /\ reply'[w].what = "ok" => made[w] = 1
           /\ \E n \in net : n.wish = w
    BY <1>3, <1>4, <2>1
  <2>. QED  BY <1>2, <1>5, <2>2, ServeOneKey
<1>6. CASE ~Known(m) /\ Remember(m, 0) /\ made' = [made EXCEPT ![m.wish] = @ + 1]
  <2>1. <<"create", m.key>> \notin DOMAIN done /\ DOMAIN done' = DOMAIN done \cup {<<"create", m.key>>}
    BY <1>1, <1>6 DEF Known, Remember
  <2>2. m.wish \in Careful => made[m.wish] = 0
    BY <1>0, <1>1, <2>1 DEF OneKey, Types
  <2>3. /\ m.wish \in Careful => made'[m.wish] = 1
        /\ \A v \in Wishes : v # m.wish => made'[v] = made[v]
    BY <1>0, <1>1, <1>6, <2>2 DEF Types
  <2>4. /\ page' = page /\ call' = call /\ shown' = shown /\ closed' = closed /\ keys' = keys
        /\ net' \subseteq net /\ m \notin net'
    BY <1>2 DEF Serves, HandleCreate, Says, Answer
  <2>5. \A w : \A k : HasKey(w, k)' => HasKey(w, k)  BY <1>0, <1>2, ServeFacts
  <2>6. \A v \in Careful : \A j, k \in 1..keys' : HasKey(v, j)' /\ HasKey(v, k)' => j = k
    BY <1>0, <2>4, <2>5 DEF OneKey
  <2>7. ASSUME NEW v \in Careful, NEW k \in 1..keys', HasKey(v, k)'
        PROVE  <<"create", k>> \in DOMAIN done' <=> made'[v] = 1
    <3>1. HasKey(v, k) /\ k \in 1..keys  BY <2>4, <2>5, <2>7
    <3>2. CASE v = m.wish
      <4>1. k = m.key  BY <3>1, <3>2, <1>0, <1>1 DEF OneKey
      <4>. QED  BY <4>1, <3>2, <2>1, <2>3
    <3>3. CASE v # m.wish
      <4>1. k # m.key  BY <3>1, <3>3, <1>0, <1>4 DEF HasKey, OwnKeys
      <4>2. <<"create", k>> \in DOMAIN done <=> made[v] = 1  BY <3>1, <1>0 DEF OneKey
      <4>. QED  BY <4>1, <4>2, <3>3, <2>1, <2>3, <1>4
    <3>. QED  BY <3>2, <3>3
  <2>8. \A v \in Careful : page'[v] = Nothing /\ ~closed' /\ v \notin shown' =>
           made'[v] = 0 /\ \A n \in net' : n.wish # v
    BY <1>0, <1>4, <2>3, <2>4 DEF OneKey
  <2>9. \A v \in Careful : v \in shown' => made'[v] = 1
    BY <1>0, <1>4, <2>3, <2>4 DEF OneKey
  <2>10. \A v \in Careful : reply'[v] # Nothing /\ reply'[v].what = "ok" => made'[v] = 1
    BY <1>0, <1>3, <1>4, <2>3 DEF OneKey
  <2>11. ASSUME NEW v \in Careful, call'[v] # Nothing, ~call'[v].earlier
         PROVE  /\ \A n \in net' : n.wish = v => n.live
                /\ reply'[v] # Nothing /\ reply'[v].what = "refused" => made'[v] = 0
                /\ \A n \in net' : n.wish = v => made'[v] = 0
    <3>1. CASE v = m.wish
      <4>1. m.live /\ \A n \in net' : n.wish # v
        BY <2>11, <3>1, <1>0, <2>4 DEF OneKey, Waiting
      <4>2. reply'[v] = Message("ok", 0, 0)
        BY <3>1, <4>1, <1>0, <1>1 DEF HandleCreate, Says, Answer, Types
      <4>. QED  BY <4>1, <4>2 DEF Message
    <3>2. CASE v # m.wish
      <4>1. made'[v] = made[v] /\ reply'[v] = reply[v]  BY <3>2, <1>3, <1>4, <2>3
      <4>. QED  BY <4>1, <2>4, <2>11, <1>0 DEF OneKey
    <3>. QED  BY <3>1, <3>2
  <2>12. \A v \in Files : made'[v] = 0
    BY <1>0, <1>1, <2>3, ClientAssumption DEF OneKey, Wishes
  <2>13. \A v \in Careful : made'[v] <= 1
    BY <1>0, <1>4, <2>3 DEF OneKey
  <2>. QED  BY <2>6, <2>7, <2>8, <2>9, <2>10, <2>11, <2>12, <2>13 DEF OneKey
<1>. QED  BY <1>5, <1>6 DEF HandleCreate

LEMMA Remembered ==
  ASSUME Types, NEW m \in net, ~Known(m), NEW s \in 0..Len(sessions'), Remember(m, s),
         sessions' \in Seq(Sessions), Len(sessions) <= Len(sessions'), keys' = keys
  PROVE  /\ DOMAIN done' = DOMAIN done \cup {<<m.step, m.key>>}
         /\ <<m.step, m.key>> \notin DOMAIN done /\ done'[<<m.step, m.key>>] = s
         /\ \A k \in DOMAIN done : done'[k] = done[k]
         /\ \A k \in DOMAIN done' : done'[k] \in 0..Len(sessions')
         /\ DOMAIN done' \subseteq Steps \X (1..keys)
<1>1. /\ DOMAIN done' = DOMAIN done \cup {<<m.step, m.key>>}
      /\ <<m.step, m.key>> \notin DOMAIN done /\ done'[<<m.step, m.key>>] = s
      /\ \A k \in DOMAIN done : k # <<m.step, m.key>> => done'[k] = done[k]
  BY DEF Remember, Known
<1>2. \A k \in DOMAIN done : k # <<m.step, m.key>>  BY <1>1
<1>3. \A k \in DOMAIN done : done'[k] = done[k]  BY <1>1, <1>2
<1>4. Len(sessions) \in Nat /\ Len(sessions') \in Nat  BY Domains DEF Types
<1>5. \A k \in DOMAIN done : done[k] \in 0..Len(sessions')  BY <1>4 DEF Types
<1>6. \A k \in DOMAIN done' : k = <<m.step, m.key>> \/ k \in DOMAIN done  BY <1>1
<1>7. \A k \in DOMAIN done' : done'[k] \in 0..Len(sessions')
  BY <1>1, <1>3, <1>5, <1>6
<1>8. <<m.step, m.key>> \in Steps \X (1..keys)  BY DEF Types, Requests
<1>9. DOMAIN done' \subseteq Steps \X (1..keys)  BY <1>1, <1>8 DEF Types
<1>. QED  BY <1>1, <1>3, <1>7, <1>9

LEMMA BeginHandled ==
  ASSUME UploadInv, NEW m \in net, HandleBegin(m)
  PROVE  /\ Serves /\ UploadInv' /\ made' = made
         /\ \E message : Answer(m, message)
         /\ DOMAIN done' \subseteq DOMAIN done \cup {<<m.step, m.key>>}
<1>0. Types /\ Waiting /\ OneSession /\ Records  BY DEF UploadInv
<1>1. /\ m.step = "begin" /\ m.wish \in Wishes /\ m.key \in 1..keys /\ m.wish \notin Creates
      /\ HasKey(m.wish, m.key)
  BY <1>0, RequestFacts DEF HandleBegin
<1>2. m.wish \in Files  BY <1>1 DEF Wishes
<1>3. Len(sessions) \in Nat /\ DOMAIN sessions = 1..Len(sessions) /\ Size \in Nat
  BY <1>0, Domains, ClientAssumption
<1>4. made' = made /\ faults' = faults /\ made' \in [Wishes -> Nat] /\ faults' \in 0..MaxFaults
  BY <1>0 DEF HandleBegin, Types
<1>5. CASE /\ Known(m)
           /\ Answer(m, Message("ok", done[<<m.step, m.key>>], 0))
           /\ UNCHANGED <<done, sessions>>
  <2>0. PICK message : message = Message("ok", done[<<m.step, m.key>>], 0)
    OBVIOUS
  <2>1. message.what = "ok" /\ message.sess = done[<<m.step, m.key>>]
    BY <2>0 DEF Message
  <2>2. Fits(m, message)'
    BY <1>1, <1>5, <2>1 DEF Fits, Known
  <2>3. message \in Messages'
    BY <1>0, <1>3, <1>5, <2>0 DEF Message, Messages, Whats, Types, Known
  <2>4. Answer(m, message)  BY <1>5, <2>0
  <2>5. /\ net' \subseteq net
        /\ \/ reply' = reply
           \/ \E n \in net, msg \in Messages' :
                /\ n.live /\ n \notin net' /\ Fits(n, msg)'
                /\ reply' = [reply EXCEPT ![n.wish] = msg]
    BY <1>0, <2>2, <2>3, <2>4, AnswerGiven
  <2>6. Serves /\ DOMAIN sessions' = DOMAIN sessions
    BY <1>0, <1>4, <1>5, <2>5, StillServes DEF HandleBegin
  <2>. QED  BY <1>4, <1>5, <2>4, <2>6, WaneKeeps
<1>6. CASE /\ ~Known(m)
           /\ Remember(m, Len(sessions) + 1)
           /\ sessions' = Append(sessions,
                [file |-> m.wish, status |-> "open", late |-> FALSE, bytes |-> <<>>])
           /\ Answer(m, Message("ok", Len(sessions) + 1, 0))
  <2>0. PICK message : message = Message("ok", Len(sessions) + 1, 0)
    OBVIOUS
  <2>. DEFINE new == [file |-> m.wish, status |-> "open", late |-> FALSE, bytes |-> <<>>]
  <2>1. new \in Sessions
    <3>1. <<>> = Rest(0, 0) /\ 0 \in 0..Size  BY <1>3, RestOfNothing
    <3>. QED  BY <1>2, <3>1 DEF Sessions, Statuses
  <2>2. /\ sessions' \in Seq(Sessions) /\ Len(sessions') = Len(sessions) + 1
        /\ \A s \in DOMAIN sessions : sessions'[s] = sessions[s]
        /\ sessions'[Len(sessions) + 1] = new
        /\ DOMAIN sessions' = 1..(Len(sessions) + 1)
    BY <1>0, <1>3, <1>6, <2>1 DEF Types
  <2>3. keys' = keys  BY DEF HandleBegin, Untouched
  <2>4. /\ DOMAIN done' = DOMAIN done \cup {<<m.step, m.key>>}
        /\ <<m.step, m.key>> \notin DOMAIN done /\ done'[<<m.step, m.key>>] = Len(sessions) + 1
        /\ \A k \in DOMAIN done : done'[k] = done[k]
        /\ \A k \in DOMAIN done' : done'[k] \in 0..Len(sessions')
        /\ DOMAIN done' \subseteq Steps \X (1..keys)
    <3>1. Len(sessions) + 1 \in 0..Len(sessions') /\ Len(sessions) <= Len(sessions')
      BY <1>3, <2>2
    <3>. QED  BY <1>0, <1>6, <2>2, <2>3, <3>1, Remembered
  <2>5. message.what = "ok" /\ message.sess = Len(sessions) + 1
    BY <2>0 DEF Message
  <2>6. Fits(m, message)'
    BY <1>1, <2>4, <2>5 DEF Fits
  <2>7. message \in Messages'
    BY <1>3, <2>0, <2>2 DEF Message, Messages, Whats
  <2>8. Answer(m, message)  BY <1>6, <2>0
  <2>9. m.wish = new.file  OBVIOUS
  <2>. HIDE DEF new
  <2>10. /\ net' \subseteq net /\ m \notin net'
         /\ \/ reply' = reply
            \/ \E n \in net, msg \in Messages' :
                 /\ n.live /\ n \notin net' /\ Fits(n, msg)'
                 /\ reply' = [reply EXCEPT ![n.wish] = msg]
    BY <1>0, <2>6, <2>7, <2>8, AnswerGiven
  <2>11. done'[<<"begin", m.key>>] \in SessionsOf(m.wish)'
    BY <1>1, <1>3, <2>2, <2>4, <2>9 DEF SessionsOf
  <2>12. \A k : <<"begin", k>> \in DOMAIN done' \ DOMAIN done =>
           \E n \in net : n.key = k /\ done'[<<"begin", k>>] \in SessionsOf(n.wish)'
    <3>1. \A k : <<"begin", k>> \in DOMAIN done' \ DOMAIN done => k = m.key
      BY <2>4
    <3>. QED  BY <3>1, <2>11
  <2>13. \A k : <<"finalize", k>> \notin DOMAIN done' \ DOMAIN done
    BY <1>1, <2>4
  <2>14. Serves
    BY <1>3, <1>4, <2>2, <2>4, <2>10, <2>12, <2>13 DEF Serves, HandleBegin, Untouched
  <2>15. Begins(m)
    BY <1>1, <1>6, <2>4, <2>10 DEF Begins
  <2>. QED  BY <1>4, <2>4, <2>8, <2>14, <2>15, BeginKeeps
<1>. QED  BY <1>5, <1>6 DEF HandleBegin

LEMMA ReadHandled ==
  ASSUME UploadInv, NEW m \in net, HandleRead(m)
  PROVE  /\ Serves /\ UploadInv' /\ made' = made
         /\ \E message : Answer(m, message)
         /\ DOMAIN done' \subseteq DOMAIN done \cup {<<m.step, m.key>>}
<1>0. Types /\ Waiting  BY DEF UploadInv
<1>1. m.step \in {"progress", "confirm"} /\ m.step \in InSession
  BY DEF HandleRead, InSession, Steps
<1>2. m.sess \in DOMAIN sessions /\ sessions[m.sess] \in Sessions
  BY <1>0, <1>1, RequestFacts
<1>3. Len(sessions) \in Nat /\ DOMAIN sessions = 1..Len(sessions) /\ Size \in Nat
  BY <1>0, Domains, ClientAssumption
<1>a. PICK message : message = Message(sessions[m.sess].status, m.sess, Len(sessions[m.sess].bytes))
  OBVIOUS
<1>4. UNCHANGED <<server, faults>> /\ Answer(m, message) /\ Untouched
  BY <1>a DEF HandleRead
<1>5. Len(sessions[m.sess].bytes) \in 0..Size
  <2>1. PICK n \in 0..Size : sessions[m.sess].bytes = Rest(0, n)
    BY <1>2 DEF Sessions
  <2>2. n \in Nat /\ 0 <= n /\ n - 0 = n  BY <2>1, <1>3
  <2>. QED  BY <2>1, <2>2, RestIsSeq
<1>6. message \in Messages'
  BY <1>2, <1>3, <1>4, <1>5, <1>a DEF Message, Messages, Whats, Sessions, server
<1>7. Fits(m, message)'
  <2>1. message.what = sessions[m.sess].status  BY <1>a DEF Message
  <2>. QED  BY <1>1, <1>4, <2>1 DEF Fits, server
<1>8. /\ net' \subseteq net
      /\ \/ reply' = reply
         \/ \E n \in net, msg \in Messages' :
              /\ n.live /\ n \notin net' /\ Fits(n, msg)'
              /\ reply' = [reply EXCEPT ![n.wish] = msg]
  BY <1>0, <1>4, <1>6, <1>7, AnswerGiven
<1>9. /\ sessions' = sessions /\ done' = done /\ made' = made
      /\ made' \in [Wishes -> Nat] /\ faults' \in 0..MaxFaults
  BY <1>0, <1>4 DEF server, Types
<1>10. Serves /\ DOMAIN sessions' = DOMAIN sessions
  BY <1>0, <1>4, <1>8, <1>9, StillServes
<1>. QED  BY <1>4, <1>9, <1>10, WaneKeeps

\* An answer without a session, in either kind of step.
LEMMA SaidFits ==
  ASSUME Types, NEW m \in net, NEW what \in Whats, Says(m, what), m.step \in InSession \/ what = "refused",
         what = "ok" /\ m.step = "finalize" => Finalized(m.wish)',
         what = "expired" => m.step # "confirm",
         sessions' \in Seq(Sessions)
  PROVE  /\ net' \subseteq net
         /\ \/ reply' = reply
            \/ \E n \in net, msg \in Messages' :
                 /\ n.live /\ n \notin net' /\ Fits(n, msg)'
                 /\ reply' = [reply EXCEPT ![n.wish] = msg]
         /\ \E message : Answer(m, message)
<1>1. PICK message : message = Message(what, 0, 0)  OBVIOUS
<1>2. message.what = what /\ Answer(m, message)  BY <1>1 DEF Message, Says
<1>3. message \in Messages'
  <2>1. Len(sessions') \in Nat /\ Size \in Nat  BY ClientAssumption
  <2>. QED  BY <1>1, <2>1 DEF Message, Messages
<1>4. Fits(m, message)'
  BY <1>2 DEF Fits, InSession
<1>. QED  BY <1>2, <1>3, <1>4, AnswerGiven

LEMMA ClosedServes ==
  ASSUME Types, Waiting, NEW m \in net, m.step \in {"write", "finalize"}, Closed(m),
         Untouched, UNCHANGED <<done, made, faults>>
  PROVE  /\ Serves /\ DOMAIN sessions' = DOMAIN sessions
         /\ \E message : Answer(m, message)
<1>1. m.step \in InSession  BY DEF InSession, Steps
<1>2. m.sess \in DOMAIN sessions /\ sessions[m.sess] \in Sessions
  BY <1>1, RequestFacts
<1>3. made' \in [Wishes -> Nat] /\ faults' \in 0..MaxFaults /\ sessions \in Seq(Sessions)
  BY DEF Types
<1>4. Says(m, "expired") /\ "expired" \in Whats  BY DEF Closed, Whats, Statuses
<1>5. CASE sessions[m.sess].status = "open"
  <2>. DEFINE r == [sessions[m.sess] EXCEPT !.status = "expired", !.bytes = <<>>]
  <2>1. r \in Sessions /\ r.file = sessions[m.sess].file
    <3>1. <<>> = Rest(0, 0) /\ 0 \in 0..Size  BY RestOfNothing, ClientAssumption
    <3>. QED  BY <1>2, <3>1 DEF Sessions, Statuses
  <2>2. sessions' = [sessions EXCEPT ![m.sess] = r]
    BY <1>2, <1>3, <1>5 DEF Closed, Sessions
  <2>. HIDE DEF r
  <2>3. sessions' \in Seq(Sessions)  BY <1>2, <1>3, <2>1, <2>2
  <2>4. /\ net' \subseteq net
        /\ \/ reply' = reply
           \/ \E n \in net, msg \in Messages' :
                /\ n.live /\ n \notin net' /\ Fits(n, msg)'
                /\ reply' = [reply EXCEPT ![n.wish] = msg]
        /\ \E message : Answer(m, message)
    BY <1>1, <1>4, <2>3, SaidFits
  <2>5. Serves /\ DOMAIN sessions' = DOMAIN sessions
    BY <1>2, <1>3, <1>5, <2>1, <2>2, <2>4, SessionServes
  <2>. QED  BY <2>4, <2>5
<1>6. CASE sessions[m.sess].status # "open"
  <2>1. sessions' = sessions  BY <1>6 DEF Closed
  <2>2. /\ net' \subseteq net
        /\ \/ reply' = reply
           \/ \E n \in net, msg \in Messages' :
                /\ n.live /\ n \notin net' /\ Fits(n, msg)'
                /\ reply' = [reply EXCEPT ![n.wish] = msg]
        /\ \E message : Answer(m, message)
    BY <1>1, <1>3, <1>4, <2>1, SaidFits
  <2>3. Serves /\ DOMAIN sessions' = DOMAIN sessions
    BY <1>3, <2>1, <2>2, StillServes
  <2>. QED  BY <2>2, <2>3
<1>. QED  BY <1>5, <1>6

\* Bytes written where the session has them until then are a start of the file.
LEMMA BytesWritten ==
  ASSUME Types, Waiting, NEW m \in net, m.step = "write", Writable(m.sess),
         Len(sessions[m.sess].bytes) = m.from, NEW to \in m.from..Size
  PROVE  LET r == [sessions[m.sess] EXCEPT !.bytes = @ \o Rest(m.from, to)]
         IN  /\ m.sess \in DOMAIN sessions /\ sessions[m.sess].status = "open"
             /\ r \in Sessions /\ r.file = sessions[m.sess].file
             /\ [sessions EXCEPT ![m.sess].bytes = @ \o Rest(m.from, to)]
                  = [sessions EXCEPT ![m.sess] = r]
<1>1. m.sess \in DOMAIN sessions /\ sessions[m.sess] \in Sessions /\ m.from \in 0..Size
  BY RequestFacts DEF InSession, Steps
<1>2. PICK n \in 0..Size : sessions[m.sess].bytes = Rest(0, n)
  BY <1>1 DEF Sessions
<1>3. n \in Nat /\ Size \in Nat /\ to \in 0..Size /\ m.from \in Nat /\ 0 <= n /\ n - 0 = n
      /\ to \in Nat /\ m.from <= to
  BY <1>1, <1>2, ClientAssumption
<1>4. m.from = n  BY <1>2, <1>3, RestIsSeq
<1>5. sessions[m.sess].bytes \o Rest(m.from, to) = Rest(0, to)
  BY <1>2, <1>3, <1>4, RestJoins
<1>6. [sessions[m.sess] EXCEPT !.bytes = @ \o Rest(m.from, to)]
        = [sessions[m.sess] EXCEPT !.bytes = Rest(0, to)]
  BY <1>5
<1>7. /\ [sessions[m.sess] EXCEPT !.bytes = Rest(0, to)] \in Sessions
      /\ [sessions[m.sess] EXCEPT !.bytes = Rest(0, to)].file = sessions[m.sess].file
  BY <1>1, <1>3 DEF Sessions
<1>8. sessions[m.sess].status = "open"  BY DEF Writable
<1>. QED  BY <1>1, <1>6, <1>7, <1>8

LEMMA WriteHandled ==
  ASSUME UploadInv, NEW m \in net, HandleWrite(m)
  PROVE  /\ Serves /\ UploadInv' /\ made' = made
         /\ \E message : Answer(m, message)
         /\ DOMAIN done' \subseteq DOMAIN done \cup {<<m.step, m.key>>}
<1>0. Types /\ Waiting  BY DEF UploadInv
<1>1. m.step = "write" /\ m.step \in InSession /\ Untouched /\ UNCHANGED <<done, made, faults>>
  BY DEF HandleWrite, InSession, Steps
<1>2. made' \in [Wishes -> Nat] /\ faults' \in 0..MaxFaults /\ sessions \in Seq(Sessions)
  BY <1>0, <1>1 DEF Types
<1>3. "ok" \in Whats /\ "refused" \in Whats  BY DEF Whats
<1>4. SUFFICES Serves /\ DOMAIN sessions' = DOMAIN sessions /\ \E message : Answer(m, message)
  BY <1>1, WaneKeeps
<1>5. CASE Closed(m)
  BY <1>0, <1>1, <1>5, ClosedServes
<1>6. CASE Says(m, "refused") /\ UNCHANGED sessions
  <2>1. /\ net' \subseteq net
        /\ \/ reply' = reply
           \/ \E n \in net, msg \in Messages' :
                /\ n.live /\ n \notin net' /\ Fits(n, msg)'
                /\ reply' = [reply EXCEPT ![n.wish] = msg]
        /\ \E message : Answer(m, message)
    BY <1>0, <1>1, <1>2, <1>3, <1>6, SaidFits
  <2>. QED  BY <1>0, <1>1, <1>2, <1>6, <2>1, StillServes
<1>7. CASE /\ Writable(m.sess) /\ Len(sessions[m.sess].bytes) = m.from
           /\ sessions' = [sessions EXCEPT ![m.sess].bytes = @ \o Rest(m.from, Size)]
           /\ Says(m, "ok")
  <2>. DEFINE r == [sessions[m.sess] EXCEPT !.bytes = @ \o Rest(m.from, Size)]
  <2>1. Size \in m.from..Size
    BY <1>0, RequestFacts, ClientAssumption
  <2>2. /\ m.sess \in DOMAIN sessions /\ sessions[m.sess].status = "open"
        /\ r \in Sessions /\ r.file = sessions[m.sess].file
        /\ sessions' = [sessions EXCEPT ![m.sess] = r]
    BY <1>0, <1>1, <1>7, <2>1, BytesWritten
  <2>. HIDE DEF r
  <2>3. sessions' \in Seq(Sessions)  BY <1>2, <2>2
  <2>4. /\ net' \subseteq net
        /\ \/ reply' = reply
           \/ \E n \in net, msg \in Messages' :
                /\ n.live /\ n \notin net' /\ Fits(n, msg)'
                /\ reply' = [reply EXCEPT ![n.wish] = msg]
        /\ \E message : Answer(m, message)
    BY <1>0, <1>1, <1>3, <1>7, <2>3, SaidFits
  <2>5. Serves /\ DOMAIN sessions' = DOMAIN sessions
    BY <1>0, <1>1, <1>2, <2>2, <2>4, SessionServes
  <2>. QED  BY <2>4, <2>5
<1>. QED  BY <1>5, <1>6, <1>7 DEF HandleWrite

LEMMA BreakHandled ==
  ASSUME UploadInv, NEW m \in net, WriteBreaks(m)
  PROVE  Serves /\ UploadInv' /\ made' = made /\ reply' = reply /\ done' = done
<1>0. Types /\ Waiting  BY DEF UploadInv
<1>1. PICK to \in m.from..(Size - 1) :
        sessions' = [sessions EXCEPT ![m.sess].bytes = @ \o Rest(m.from, to)]
  BY DEF WriteBreaks
<1>2. m.from \in Nat /\ Size \in Nat /\ to \in m.from..Size
  BY <1>0, RequestFacts, ClientAssumption
<1>3. /\ m.step = "write" /\ Writable(m.sess) /\ Len(sessions[m.sess].bytes) = m.from
      /\ Untouched /\ UNCHANGED <<done, made>> /\ reply' = reply /\ net' \subseteq net
      /\ faults' \in 0..MaxFaults /\ made' \in [Wishes -> Nat]
  BY <1>0, ClientAssumption DEF WriteBreaks, Fault, Types
<1>. DEFINE r == [sessions[m.sess] EXCEPT !.bytes = @ \o Rest(m.from, to)]
<1>4. /\ m.sess \in DOMAIN sessions /\ sessions[m.sess].status = "open"
      /\ r \in Sessions /\ r.file = sessions[m.sess].file
      /\ sessions' = [sessions EXCEPT ![m.sess] = r]
  BY <1>0, <1>1, <1>2, <1>3, BytesWritten
<1>. HIDE DEF r
<1>5. Serves /\ DOMAIN sessions' = DOMAIN sessions
  BY <1>0, <1>3, <1>4, SessionServes
<1>. QED  BY <1>3, <1>5, WaneKeeps

LEMMA FinalizeHandled ==
  ASSUME UploadInv, NEW m \in net, HandleFinalize(m)
  PROVE  /\ Serves /\ UploadInv' /\ made' = made
         /\ \E message : Answer(m, message)
         /\ DOMAIN done' \subseteq DOMAIN done \cup {<<m.step, m.key>>}
<1>0. Types /\ Waiting /\ Records  BY DEF UploadInv
<1>1. m.step = "finalize" /\ m.step \in InSession /\ Untouched /\ UNCHANGED <<made, faults>>
  BY DEF HandleFinalize, InSession, Steps
<1>2. made' \in [Wishes -> Nat] /\ faults' \in 0..MaxFaults /\ sessions \in Seq(Sessions)
  BY <1>0, <1>1 DEF Types
<1>3. "ok" \in Whats /\ "refused" \in Whats  BY DEF Whats
<1>4. /\ m.wish \in Wishes /\ m.key \in 1..keys /\ HasKey(m.wish, m.key)
      /\ m.sess \in DOMAIN sessions /\ m.sess \in SessionsOf(m.wish) /\ sessions[m.sess] \in Sessions
  BY <1>0, <1>1, RequestFacts
<1>5. SUFFICES /\ Serves /\ DOMAIN sessions' = DOMAIN sessions /\ \E message : Answer(m, message)
               /\ DOMAIN done' \subseteq DOMAIN done \cup {<<m.step, m.key>>}
  BY <1>1, WaneKeeps
<1>6. CASE Known(m) /\ Says(m, "ok") /\ UNCHANGED <<sessions, done>>
  <2>1. Finalized(m.wish)'
    <3>1. <<"finalize", m.key>> \in DOMAIN done
      BY <1>1, <1>6 DEF Known
    <3>2. /\ done[<<"finalize", m.key>>] \in SessionsOf(m.wish)
          /\ sessions[done[<<"finalize", m.key>>]].status = "finalized"
      BY <1>0, <1>4, <3>1 DEF Records
    <3> QED BY <1>6, <3>2 DEF Finalized, SessionsOf
  <2>2. /\ net' \subseteq net
        /\ \/ reply' = reply
           \/ \E n \in net, msg \in Messages' :
                /\ n.live /\ n \notin net' /\ Fits(n, msg)'
                /\ reply' = [reply EXCEPT ![n.wish] = msg]
        /\ \E message : Answer(m, message)
    BY <1>0, <1>1, <1>2, <1>3, <1>6, <2>1, SaidFits
  <2>. QED  BY <1>0, <1>1, <1>2, <1>6, <2>2, StillServes
<1>7. CASE ~Known(m) /\ Closed(m) /\ UNCHANGED done
  BY <1>0, <1>1, <1>7, ClosedServes
<1>8. CASE Says(m, "refused") /\ UNCHANGED <<sessions, done>>
  <2>1. /\ net' \subseteq net
        /\ \/ reply' = reply
           \/ \E n \in net, msg \in Messages' :
                /\ n.live /\ n \notin net' /\ Fits(n, msg)'
                /\ reply' = [reply EXCEPT ![n.wish] = msg]
        /\ \E message : Answer(m, message)
    BY <1>0, <1>1, <1>2, <1>3, <1>8, SaidFits
  <2>. QED  BY <1>0, <1>1, <1>2, <1>8, <2>1, StillServes
<1>9. CASE /\ ~Known(m) /\ Writable(m.sess)
           /\ sessions' = [sessions EXCEPT ![m.sess].status = "finalized"]
           /\ Remember(m, m.sess) /\ Says(m, "ok")
  <2>. DEFINE r == [sessions[m.sess] EXCEPT !.status = "finalized"]
  <2>1. /\ r \in Sessions /\ r.file = sessions[m.sess].file /\ r.status = "finalized"
        /\ sessions' = [sessions EXCEPT ![m.sess] = r]
    BY <1>4, <1>9 DEF Sessions, Statuses
  <2>. HIDE DEF r
  <2>2. /\ sessions' \in Seq(Sessions) /\ Len(sessions') = Len(sessions)
        /\ DOMAIN sessions' = DOMAIN sessions
        /\ \A t \in DOMAIN sessions : sessions'[t] = IF t = m.sess THEN r ELSE sessions[t]
    BY <1>2, <1>4, <2>1
  <2>3. m.sess \in SessionsOf(m.wish)' /\ sessions'[m.sess].status = "finalized"
    BY <1>4, <2>1, <2>2 DEF SessionsOf
  <2>4. Finalized(m.wish)'  BY <2>3 DEF Finalized
  <2>5. Len(sessions) \in Nat /\ DOMAIN sessions = 1..Len(sessions)  BY <1>0, Domains
  <2>6. /\ DOMAIN done' = DOMAIN done \cup {<<m.step, m.key>>}
        /\ <<m.step, m.key>> \notin DOMAIN done /\ done'[<<m.step, m.key>>] = m.sess
        /\ \A k \in DOMAIN done : done'[k] = done[k]
        /\ \A k \in DOMAIN done' : done'[k] \in 0..Len(sessions')
        /\ DOMAIN done' \subseteq Steps \X (1..keys)
    <3>1. m.sess \in 0..Len(sessions') /\ Len(sessions) <= Len(sessions') /\ keys' = keys
      BY <1>1, <1>4, <2>2, <2>5 DEF Untouched
    <3>. QED  BY <1>0, <1>9, <2>2, <3>1, Remembered
  <2>7. /\ net' \subseteq net
        /\ \/ reply' = reply
           \/ \E n \in net, msg \in Messages' :
                /\ n.live /\ n \notin net' /\ Fits(n, msg)'
                /\ reply' = [reply EXCEPT ![n.wish] = msg]
        /\ \E message : Answer(m, message)
    BY <1>0, <1>1, <1>3, <1>9, <2>2, <2>4, SaidFits
  <2>8. \A k : <<"begin", k>> \notin DOMAIN done' \ DOMAIN done
    BY <1>1, <2>6
  <2>9. \A k : <<"finalize", k>> \in DOMAIN done' \ DOMAIN done =>
          \E n \in net : /\ n.key = k /\ done'[<<"finalize", k>>] \in SessionsOf(n.wish)'
                         /\ sessions'[done'[<<"finalize", k>>]].status = "finalized"
    <3>1. \A k : <<"finalize", k>> \in DOMAIN done' \ DOMAIN done => k = m.key
      BY <2>6
    <3>2. done'[<<"finalize", m.key>>] = m.sess  BY <1>1, <2>6
    <3>. QED  BY <3>1, <3>2, <2>3
  <2>10. \A s \in DOMAIN sessions :
           /\ sessions'[s].file = sessions[s].file
           /\ sessions[s].status # "open" => sessions'[s].status = sessions[s].status
    BY <1>9, <2>1, <2>2 DEF Writable
  <2>11. Serves
    BY <1>1, <1>2, <2>2, <2>5, <2>6, <2>7, <2>8, <2>9, <2>10 DEF Serves, Untouched
  <2>. QED  BY <2>2, <2>6, <2>7, <2>11
<1>. QED  BY <1>6, <1>7, <1>8, <1>9 DEF HandleFinalize

LEMMA RefuseHandled ==
  ASSUME UploadInv, NEW m \in net, Refuse(m)
  PROVE  /\ Serves /\ UploadInv' /\ made' = made /\ done' = done
         /\ \A w \in Wishes : reply'[w] # reply[w] => w = m.wish /\ reply'[w].what = "refused"
<1>0. Types  BY DEF UploadInv
<1>1. /\ Says(m, "refused") /\ Untouched /\ UNCHANGED server
      /\ sessions' = sessions /\ done' = done /\ made' = made
      /\ faults' \in 0..MaxFaults /\ made' \in [Wishes -> Nat] /\ sessions' \in Seq(Sessions)
  BY <1>0, ClientAssumption DEF Refuse, Fault, Types, server
<1>2. "refused" \in Whats  BY DEF Whats
<1>3. /\ net' \subseteq net
      /\ \/ reply' = reply
         \/ \E n \in net, msg \in Messages' :
              /\ n.live /\ n \notin net' /\ Fits(n, msg)'
              /\ reply' = [reply EXCEPT ![n.wish] = msg]
  BY <1>0, <1>1, <1>2, SaidFits
<1>4. Serves /\ DOMAIN sessions' = DOMAIN sessions
  BY <1>0, <1>1, <1>3, StillServes
<1>5. ASSUME NEW w \in Wishes, reply'[w] # reply[w]
      PROVE  w = m.wish /\ reply'[w].what = "refused"
  <2>1. w = m.wish /\ reply'[w] = Message("refused", 0, 0)
    BY <1>0, <1>1, <1>5, AnswerReply DEF Says
  <2>. QED  BY <2>1 DEF Message
<1>. QED  BY <1>1, <1>4, <1>5, WaneKeeps

LEMMA LoseHandled ==
  ASSUME UploadInv, NEW m \in net, Lose(m)
  PROVE  Serves /\ UploadInv' /\ made' = made /\ reply' = reply /\ done' = done
<1>0. Types  BY DEF UploadInv
<1>1. /\ Untouched /\ sessions' = sessions /\ done' = done /\ made' = made /\ reply' = reply
      /\ faults' \in 0..MaxFaults /\ made' \in [Wishes -> Nat] /\ net' \subseteq net
  <2>1. faults' \in 0..MaxFaults  BY <1>0, ClientAssumption DEF Lose, Fault, Types
  <2>. QED  BY <1>0, <2>1 DEF Lose, Types, server, client, Untouched
<1>2. Serves /\ DOMAIN sessions' = DOMAIN sessions
  BY <1>0, <1>1, StillServes
<1>. QED  BY <1>1, <1>2, WaneKeeps

LEMMA DeadlineHandled ==
  ASSUME UploadInv, NEW s \in DOMAIN sessions, Deadline(s)
  PROVE  Serves /\ UploadInv' /\ made' = made /\ reply' = reply /\ done' = done
<1>0. Types  BY DEF UploadInv
<1>1. /\ Untouched /\ done' = done /\ made' = made /\ reply' = reply /\ net' \subseteq net
      /\ faults' \in 0..MaxFaults /\ made' \in [Wishes -> Nat]
  BY <1>0, ClientAssumption DEF Deadline, Fault, Types, client, Untouched
<1>. DEFINE r == [sessions[s] EXCEPT !.late = TRUE]
<1>2. sessions[s] \in Sessions  BY <1>0, Domains
<1>3. /\ r \in Sessions /\ r.file = sessions[s].file /\ sessions[s].status = "open"
      /\ sessions' = [sessions EXCEPT ![s] = r]
  BY <1>2 DEF Deadline, Writable, Sessions
<1>. HIDE DEF r
<1>4. Serves /\ DOMAIN sessions' = DOMAIN sessions
  BY <1>0, <1>1, <1>3, SessionServes
<1>. QED  BY <1>1, <1>4, WaneKeeps

\* The server's steps that say nothing new of a create.
LEMMA QuietOneKey ==
  ASSUME ClientInv, Serves, made' = made, done' = done,
         \A w \in Wishes : reply'[w] # reply[w] =>
           reply'[w].what = "refused" /\ \E m \in net : m.wish = w
  PROVE  OneKey'
<1>1. \A w \in Careful : w \in Wishes  BY ClientAssumption DEF Wishes
<1>. QED  BY <1>1, ServeOneKey

-----------------------------------------------------------------------------
(* The page's actions are steps of the page *)

\* Whoever hears an answer has a command pending and nothing under way.
LEMMA Listening ==
  ASSUME Types, Waiting, NEW w \in Wishes, reply[w] # Nothing \/ (Ready(w) /\ page[w] # Nothing)
  PROVE  /\ page[w] # Nothing /\ ~closed /\ w \notin shown /\ Underway(w) = {}
         /\ page[w] \in PageCommands(keys)
         /\ page[w].sent => page[w].sess # 0
         /\ reply[w] # Nothing =>
              /\ call[w] # Nothing /\ (call[w].step = "create") = (w \in Creates)
              /\ call[w].step \in InSession => page[w].sess # 0
<1>1. page[w] # Nothing /\ ~closed /\ w \notin shown
  BY DEF Waiting
<1>2. Underway(w) = {}
  BY DEF Waiting, Underway, Ready
<1>3. page[w] \in PageCommands(keys)
  BY <1>1 DEF Types, Commands, PageCommands
<1>. QED  BY <1>1, <1>2, <1>3 DEF Waiting

LEMMA SendAsks ==
  ASSUME Types, NEW w \in Wishes, ~closed, w \notin shown, Underway(w) = {},
         NEW step \in Steps, (step = "create") = (w \in Creates),
         NEW p \in PageCommands(keys'), p.sent => p.sess # 0,
         \/ page[w] # Nothing /\ p.key = page[w].key /\ keys' = keys
         \/ page[w] = Nothing /\ p.key = keys + 1 /\ keys' = keys + 1 /\ p.sess = 0,
         p.sess # 0 => <<"begin", p.key>> \in DOMAIN done /\ p.sess = done[<<"begin", p.key>>],
         step \in InSession => p.sess # 0,
         Keep(w, p), reply' = [reply EXCEPT ![w] = Nothing],
         NEW from \in 0..Size, NEW earlier \in BOOLEAN, earlier = (page[w] # Nothing) \/ step # "create",
         NEW q, q.key = p.key, q.sess = p.sess, Send(w, step, q, from, earlier),
         UNCHANGED <<shown, closed, server, faults>>
  PROVE  Asks(w, step, p)
<1>1. /\ call' = [call EXCEPT ![w] = [step |-> step, earlier |-> earlier]]
      /\ net' = net \cup {[wish |-> w, step |-> step, key |-> p.key, sess |-> p.sess,
                           from |-> from, nth |-> faults, live |-> TRUE]}
  BY DEF Send
<1>. QED  BY <1>1 DEF Asks, Keep

LEMMA PendingDrawn ==
  ASSUME UploadInv, NEW w \in Wishes, Ready(w), DrawKey(w)
  PROVE  /\ Pending(w) \in PageCommands(keys')
         /\ \/ page[w] # Nothing /\ Pending(w) = page[w] /\ keys' = keys
            \/ page[w] = Nothing /\ Pending(w).key = keys + 1 /\ keys' = keys + 1 /\ Pending(w).sess = 0
         /\ Pending(w).sent => Pending(w).sess # 0
         /\ Pending(w).sess # 0 => /\ <<"begin", Pending(w).key>> \in DOMAIN done
                                   /\ Pending(w).sess = done[<<"begin", Pending(w).key>>]
         /\ ~closed /\ w \notin shown /\ Underway(w) = {}
         /\ reply = [reply EXCEPT ![w] = Nothing]
<1>0. Types /\ Waiting /\ OneSession  BY DEF UploadInv
<1>1. keys \in Nat /\ Len(sessions) \in Nat  BY <1>0, Domains DEF Types
<1>2. reply = [reply EXCEPT ![w] = Nothing]
  BY <1>0 DEF Types, Waiting, Ready
<1>3. ~closed /\ w \notin shown  BY DEF Ready
<1>4. Underway(w) = {}  BY <1>0 DEF Waiting, Underway, Ready
<1>5. CASE page[w] = Nothing
  <2>1. Pending(w) = Fresh(keys + 1)  BY <1>5 DEF Pending
  <2>2. /\ Pending(w).key = keys + 1 /\ Pending(w).sess = 0 /\ ~Pending(w).sent
        /\ Pending(w) \in PageCommands(keys + 1)
    BY <1>1, <2>1 DEF Fresh, PageCommands
  <2>3. keys' = keys + 1  BY <1>1, <2>2 DEF DrawKey
  <2>. QED  BY <1>2, <1>3, <1>4, <1>5, <2>2, <2>3
<1>6. CASE page[w] # Nothing
  <2>1. Pending(w) = page[w]  BY <1>6 DEF Pending
  <2>2. page[w] \in PageCommands(keys) /\ (page[w].sent => page[w].sess # 0)
    BY <1>0, <1>6, Listening
  <2>3. keys' = keys  BY <1>1, <2>1, <2>2 DEF DrawKey, PageCommands
  <2>4. page[w].sess # 0 => <<"begin", page[w].key>> \in DOMAIN done
                            /\ page[w].sess = done[<<"begin", page[w].key>>]
    BY <1>0, <1>6 DEF OneSession
  <2>. QED  BY <1>2, <1>3, <1>4, <1>6, <2>1, <2>2, <2>3, <2>4
<1>. QED  BY <1>5, <1>6

LEMMA TryCreateAsks ==
  ASSUME UploadInv, NEW w \in Wishes, TryCreate(w)
  PROVE  \E step, p : Asks(w, step, p)
<1>0. Types  BY DEF UploadInv
<1>1. /\ w \in Creates /\ Ready(w) /\ DrawKey(w) /\ Keep(w, Pending(w))
      /\ Send(w, "create", Pending(w), 0, page[w] # Nothing)
      /\ UNCHANGED <<reply, shown, closed, server, faults>>
  BY DEF TryCreate
<1>2. PICK p : p = Pending(w)  OBVIOUS
<1>3. PICK earlier \in BOOLEAN : earlier = (page[w] # Nothing)  OBVIOUS
<1>4. /\ p \in PageCommands(keys')
      /\ \/ page[w] # Nothing /\ p = page[w] /\ keys' = keys
         \/ page[w] = Nothing /\ p.key = keys + 1 /\ keys' = keys + 1 /\ p.sess = 0
      /\ p.sent => p.sess # 0
      /\ p.sess # 0 => <<"begin", p.key>> \in DOMAIN done /\ p.sess = done[<<"begin", p.key>>]
      /\ ~closed /\ w \notin shown /\ Underway(w) = {}
      /\ reply = [reply EXCEPT ![w] = Nothing]
  BY <1>1, <1>2, PendingDrawn
<1>5. "create" \in Steps /\ "create" \notin InSession /\ 0 \in 0..Size
  BY ClientAssumption DEF Steps, InSession
<1>6. Keep(w, p) /\ Send(w, "create", p, 0, earlier) /\ reply' = [reply EXCEPT ![w] = Nothing]
  BY <1>1, <1>2, <1>3, <1>4
<1>7. Asks(w, "create", p)
  BY <1>0, <1>1, <1>3, <1>4, <1>5, <1>6, SendAsks
<1>. QED  BY <1>7

LEMMA ContinueAsks ==
  ASSUME Types, NEW w \in Files, ~closed, w \notin shown, Underway(w) = {},
         page[w] # Nothing, keys' = keys,
         NEW p \in PageCommands(keys), p.key = page[w].key, p.sess # 0,
         <<"begin", p.key>> \in DOMAIN done, p.sess = done[<<"begin", p.key>>],
         Continue(w, p), reply' = [reply EXCEPT ![w] = Nothing],
         UNCHANGED <<shown, closed, server, faults>>
  PROVE  \E step, q : Asks(w, step, q)
<1>1. w \in Wishes /\ w \notin Creates /\ 0 \in 0..Size
  BY ClientAssumption DEF Wishes
<1>2. \A step \in {"finalize", "progress", "write"} :
        /\ step \in Steps /\ (step = "create") = (w \in Creates)
        /\ TRUE = (page[w] # Nothing) \/ step # "create"
  BY <1>1 DEF Steps
<1>a. /\ p \in PageCommands(keys') /\ (p.sent => p.sess # 0) /\ TRUE \in BOOLEAN
      /\ page[w] # Nothing /\ p.key = page[w].key /\ keys' = keys
  OBVIOUS
<1>3. CASE p.sent /\ Keep(w, p) /\ Send(w, "finalize", p, 0, TRUE)
  <2>1. Asks(w, "finalize", p)  BY <1>1, <1>2, <1>3, <1>a, SendAsks
  <2>. QED  BY <2>1
<1>4. CASE ~p.sent /\ p.tried /\ Keep(w, p) /\ Send(w, "progress", p, 0, TRUE)
  <2>1. Asks(w, "progress", p)  BY <1>1, <1>2, <1>4, <1>a, SendAsks
  <2>. QED  BY <2>1
<1>5. CASE ~p.sent /\ ~p.tried /\ Keep(w, [p EXCEPT !.tried = TRUE]) /\ Send(w, "write", p, 0, TRUE)
  <2>1. PICK q : q = [p EXCEPT !.tried = TRUE]  OBVIOUS
  <2>2. q \in PageCommands(keys') /\ q.key = p.key /\ q.sess = p.sess /\ (q.sent => q.sess # 0)
    BY <2>1, <1>a DEF PageCommands
  <2>3. Keep(w, q)  BY <1>5, <2>1
  <2>4. Asks(w, "write", q)  BY <1>1, <1>2, <1>5, <1>a, <2>2, <2>3, SendAsks
  <2>. QED  BY <2>4
<1>. QED  BY <1>3, <1>4, <1>5 DEF Continue

LEMMA TryUploadAsks ==
  ASSUME UploadInv, NEW w \in Wishes, TryUpload(w)
  PROVE  \E step, p : Asks(w, step, p)
<1>0. Types  BY DEF UploadInv
<1>1. /\ w \in Files /\ Ready(w) /\ DrawKey(w)
      /\ IF Pending(w).sess = 0
         THEN Keep(w, Pending(w)) /\ Send(w, "begin", Pending(w), 0, TRUE)
         ELSE Continue(w, Pending(w))
      /\ UNCHANGED <<reply, shown, closed, server, faults>>
  BY DEF TryUpload
<1>2. PICK p : p = Pending(w)  OBVIOUS
<1>3. /\ p \in PageCommands(keys')
      /\ \/ page[w] # Nothing /\ p = page[w] /\ keys' = keys
         \/ page[w] = Nothing /\ p.key = keys + 1 /\ keys' = keys + 1 /\ p.sess = 0
      /\ p.sent => p.sess # 0
      /\ p.sess # 0 => <<"begin", p.key>> \in DOMAIN done /\ p.sess = done[<<"begin", p.key>>]
      /\ ~closed /\ w \notin shown /\ Underway(w) = {}
      /\ reply = [reply EXCEPT ![w] = Nothing]
  BY <1>1, <1>2, PendingDrawn
<1>4. /\ "begin" \in Steps /\ "begin" \notin InSession /\ 0 \in 0..Size /\ w \notin Creates
      /\ ("begin" = "create") = (w \in Creates) /\ TRUE \in BOOLEAN
  BY <1>1, ClientAssumption DEF Steps, InSession
<1>5. reply' = [reply EXCEPT ![w] = Nothing]  BY <1>1, <1>3
<1>6. CASE p.sess = 0
  <2>1. Keep(w, p) /\ Send(w, "begin", p, 0, TRUE)  BY <1>1, <1>2, <1>6
  <2>2. Asks(w, "begin", p)
    BY <1>0, <1>1, <1>3, <1>4, <1>5, <2>1, SendAsks
  <2>. QED  BY <2>2
<1>7. CASE p.sess # 0
  <2>1. Continue(w, p)  BY <1>1, <1>2, <1>7
  <2>. QED  BY <1>0, <1>1, <1>3, <1>5, <1>7, <2>1, ContinueAsks
<1>. QED  BY <1>6, <1>7

LEMMA BeginHeard ==
  ASSUME UploadInv, NEW w \in Wishes, BeginConfirmed(w)
  PROVE  \E step, p : Asks(w, step, p)
<1>0. Types /\ Waiting /\ OneSession /\ Records /\ Answers  BY DEF UploadInv
<1>1. /\ reply[w] # Nothing /\ call[w].step = "begin" /\ Answered(w, "begin", "ok")
      /\ Continue(w, [page[w] EXCEPT !.sess = reply[w].sess])
      /\ reply' = [reply EXCEPT ![w] = Nothing] /\ keys' = keys
      /\ UNCHANGED <<shown, closed, server, faults>>
  BY DEF BeginConfirmed, Answered, Heard
<1>2. /\ page[w] # Nothing /\ ~closed /\ w \notin shown /\ Underway(w) = {}
      /\ page[w] \in PageCommands(keys)
  BY <1>0, <1>1, Listening
<1>3. w \in Files
  BY <1>0, <1>1, Listening DEF Wishes
<1>4. <<"begin", page[w].key>> \in DOMAIN done /\ reply[w].sess = done[<<"begin", page[w].key>>]
  BY <1>0, <1>1, <1>3 DEF Answers
<1>5. reply[w].sess \in SessionsOf(w)
  <2>1. HasKey(w, page[w].key) /\ page[w].key \in 1..keys  BY <1>2 DEF HasKey, PageCommands
  <2>. QED  BY <2>1, <1>0, <1>4 DEF Records
<1>6. reply[w].sess \in 1..Len(sessions) /\ Len(sessions) \in Nat
  BY <1>0, <1>5, Domains DEF SessionsOf
<1>7. PICK p : p = [page[w] EXCEPT !.sess = reply[w].sess]  OBVIOUS
<1>8. p \in PageCommands(keys) /\ p.key = page[w].key /\ p.sess = reply[w].sess /\ p.sess # 0
  BY <1>2, <1>6, <1>7 DEF PageCommands
<1>9. Continue(w, p)  BY <1>1, <1>7
<1>10. <<"begin", p.key>> \in DOMAIN done /\ p.sess = done[<<"begin", p.key>>]
  BY <1>4, <1>8
<1>. QED  BY <1>0, <1>1, <1>2, <1>3, <1>8, <1>9, <1>10, ContinueAsks

\* An answer heard in an upload whose session is known: the command goes on.
LEMMA NextStepAsks ==
  ASSUME UploadInv, NEW w \in Wishes, reply[w] # Nothing, call[w].step \in InSession,
         NEW step \in InSession, NEW p, p \in {page[w], [page[w] EXCEPT !.sent = TRUE]},
         NEW from \in 0..Size, Keep(w, p), Send(w, step, page[w], from, TRUE),
         Heard(w), UNCHANGED <<shown, keys, closed, server, faults>>
  PROVE  Asks(w, step, p)
<1>0. Types /\ Waiting /\ OneSession  BY DEF UploadInv
<1>1. /\ page[w] # Nothing /\ ~closed /\ w \notin shown /\ Underway(w) = {}
      /\ page[w] \in PageCommands(keys) /\ page[w].sess # 0
      /\ (call[w].step = "create") = (w \in Creates)
  BY <1>0, Listening
<1>2. /\ step \in Steps /\ (step = "create") = (w \in Creates) /\ TRUE \in BOOLEAN
      /\ TRUE = (page[w] # Nothing) \/ step # "create"
  BY <1>1 DEF InSession
<1>3. /\ p \in PageCommands(keys') /\ p.key = page[w].key /\ p.sess = page[w].sess
      /\ (p.sent => p.sess # 0)
  BY <1>1 DEF PageCommands
<1>4. <<"begin", p.key>> \in DOMAIN done /\ p.sess = done[<<"begin", p.key>>]
  BY <1>0, <1>1, <1>3 DEF OneSession
<1>5. keys' = keys /\ reply' = [reply EXCEPT ![w] = Nothing]  BY DEF Heard
<1>. QED  BY <1>0, <1>1, <1>2, <1>3, <1>4, <1>5, SendAsks

LEMMA UploadHeard ==
  ASSUME UploadInv, NEW w \in Wishes, ProgressRead(w) \/ WriteConfirmed(w) \/ ExpiredTold(w)
  PROVE  \E step, p : Asks(w, step, p)
<1>0. Types  BY DEF UploadInv
<1>1. /\ reply[w] # Nothing /\ call[w].step \in InSession
      /\ Heard(w) /\ UNCHANGED <<shown, keys, closed, server, faults>>
  BY DEF ProgressRead, WriteConfirmed, ExpiredTold, Answered, InSession, Steps
<1>2. PICK q : q = [page[w] EXCEPT !.sent = TRUE]  OBVIOUS
<1>3. PICK p : p = page[w]  OBVIOUS
<1>4. Keep(w, p) \/ page' # page
  BY <1>0, <1>3 DEF Keep, Types
<1>5. {"write", "finalize", "confirm"} \subseteq InSession  BY DEF InSession, Steps
<1>6. 0 \in 0..Size /\ reply[w].received \in 0..Size
  BY <1>0, <1>1, ClientAssumption DEF Types, Messages
<1>7. CASE UNCHANGED page /\ Send(w, "write", page[w], reply[w].received, TRUE)
  <2>1. Asks(w, "write", p)
    BY <1>1, <1>3, <1>4, <1>5, <1>6, <1>7, NextStepAsks
  <2>. QED  BY <2>1
<1>8. CASE Keep(w, [page[w] EXCEPT !.sent = TRUE]) /\ Send(w, "finalize", page[w], 0, TRUE)
  <2>1. Asks(w, "finalize", q)
    BY <1>1, <1>2, <1>5, <1>6, <1>8, NextStepAsks
  <2>. QED  BY <2>1
<1>9. CASE UNCHANGED page /\ Send(w, "confirm", page[w], 0, TRUE)
  <2>1. Asks(w, "confirm", p)
    BY <1>1, <1>3, <1>4, <1>5, <1>6, <1>9, NextStepAsks
  <2>. QED  BY <2>1
<1>. QED  BY <1>7, <1>8, <1>9 DEF ProgressRead, WriteConfirmed, ExpiredTold

LEMMA CommandSettles ==
  ASSUME UploadInv, NEW w \in Wishes, CommandConfirmed(w)
  PROVE  /\ Settles(w) /\ UploadLetGo(w)
         /\ OneKey => CreateLetGo(w)
<1>0. Types /\ Waiting /\ OneSession /\ Answers  BY DEF UploadInv
<1>1. /\ reply[w] # Nothing /\ reply[w].what = "ok" /\ call[w].step \in {"create", "finalize"}
      /\ call[w].step = "finalize" => Answered(w, "finalize", "ok")
      /\ Confirm(w) /\ UNCHANGED <<keys, closed, server, faults>>
  BY DEF CommandConfirmed, Answered
<1>2. Settles(w) /\ shown' = shown \cup {w}
  BY <1>1 DEF Settles, Confirm, Keep, Heard, Idle
<1>3. w \in Creates <=> call[w].step = "create"
  BY <1>0, <1>1, Listening
<1>4. w \in Files => Finalized(w)
  BY <1>0, <1>1, <1>3, ClientAssumption DEF Answers
<1>5. ASSUME NEW m \in net, m.wish = w PROVE ~Unknown(m)
  <2>1. CASE w \in Creates
    BY <1>5, <2>1, <1>0 DEF Waiting, Unknown
  <2>2. CASE w \in Files
    <3>. SUFFICES ASSUME Unknown(m) PROVE FALSE  OBVIOUS
    <3>1. Dead(m.wish)  BY <1>0 DEF OneSession
    <3>2. Dead(w)  BY <1>5, <3>1
    <3>. QED  BY <3>2, <2>2, <1>4 DEF Dead, Finalized
  <2>. QED  BY <2>1, <2>2 DEF Wishes
<1>6. UploadLetGo(w)  BY <1>2, <1>4, <1>5 DEF UploadLetGo
<1>7. OneKey => CreateLetGo(w)  BY <1>1, <1>2 DEF OneKey, CreateLetGo
<1>. QED  BY <1>2, <1>6, <1>7

LEMMA RefusedSettles ==
  ASSUME UploadInv, NEW w \in Wishes, CreateRefused(w)
  PROVE  /\ Settles(w) /\ UploadLetGo(w)
         /\ OneKey => CreateLetGo(w)
<1>0. Types /\ Waiting  BY DEF UploadInv
<1>1. /\ reply[w] # Nothing /\ reply[w].what = "refused" /\ call[w].step = "create"
      /\ Heard(w) /\ Idle(w) /\ UNCHANGED <<shown, keys, closed, server, faults>>
  BY DEF CreateRefused, Answered
<1>2. w \in Creates /\ page[w] # Nothing /\ call[w] # Nothing /\ w \notin shown
      /\ \A m \in net : m.wish = w => ~m.live
  <2>1. \A m \in net : m.wish = w => ~m.live  BY <1>1, <1>0 DEF Waiting
  <2>. QED  BY <2>1, <1>0, <1>1, Listening
<1>3. page' = page \/ (page' = [page EXCEPT ![w] = Nothing] /\ ~(w \in Careful /\ call[w].earlier))
  BY <1>0 DEF CreateRefused, Keep, Types
<1>4. Settles(w)
  BY <1>1, <1>3 DEF Settles, Heard, Idle
<1>5. UploadLetGo(w)
  BY <1>0, <1>2, ClientAssumption DEF UploadLetGo, Waiting, Unknown
<1>6. ASSUME OneKey PROVE CreateLetGo(w)
  <2>. SUFFICES ASSUME w \in Careful, page'[w] = Nothing PROVE made[w] = 0 /\ \A m \in net : m.wish # w
    BY <1>1, <1>2 DEF CreateLetGo
  <2>1. ~call[w].earlier  BY <1>2, <1>3
  <2>. QED  BY <2>1, <1>1, <1>2, <1>6 DEF OneKey
<1>. QED  BY <1>4, <1>5, <1>6

LEMMA UploadSettles ==
  ASSUME UploadInv, NEW w \in Wishes, UploadRefused(w)
  PROVE  Settles(w) /\ UploadLetGo(w) /\ CreateLetGo(w)
<1>0. Types /\ Waiting  BY DEF UploadInv
<1>1. /\ reply[w] # Nothing /\ page' = page
      /\ Heard(w) /\ Idle(w) /\ UNCHANGED <<shown, keys, closed, server, faults>>
  BY DEF UploadRefused, Answered
<1>2. page[w] # Nothing  BY <1>0, <1>1, Listening
<1>. QED  BY <1>1, <1>2 DEF Settles, Heard, Idle, UploadLetGo, CreateLetGo

LEMMA ExpirySettles ==
  ASSUME UploadInv, NEW w \in Wishes, ExpiryConfirmed(w)
  PROVE  Settles(w) /\ UploadLetGo(w) /\ CreateLetGo(w)
<1>0. Types /\ Waiting /\ OneSession /\ Answers  BY DEF UploadInv
<1>1. /\ reply[w] # Nothing /\ call[w].step = "confirm" /\ call[w] # Nothing
      /\ reply[w].what = "expired" => Answered(w, "confirm", "expired")
      /\ Heard(w) /\ Idle(w) /\ UNCHANGED <<shown, keys, closed, server, faults>>
  BY DEF ExpiryConfirmed, Answered
<1>2. /\ w \notin Creates /\ w \in Files /\ w \notin shown
      /\ page[w] # Nothing /\ page[w].sess # 0
  BY <1>0, <1>1, Listening DEF InSession, Steps, Wishes
<1>3. page' = page \/ (page' = [page EXCEPT ![w] = Nothing] /\ reply[w].what = "expired")
  BY <1>0 DEF ExpiryConfirmed, Keep, Types
<1>4. Settles(w)
  BY <1>1, <1>3 DEF Settles, Heard, Idle
<1>5. ASSUME reply[w].what = "expired" PROVE Dead(w) /\ \A m \in net : m.wish = w => ~Unknown(m)
  <2>1. sessions[page[w].sess].status = "expired"
    BY <1>0, <1>1, <1>2, <1>5 DEF Answers
  <2>2. <<"begin", page[w].key>> \in DOMAIN done /\ page[w].sess = done[<<"begin", page[w].key>>]
    BY <1>0, <1>2 DEF OneSession
  <2>3. Dead(w)
    BY <2>1, <2>2, <1>0, <1>2 DEF OneSession, Dead
  <2>4. ASSUME NEW m \in net, m.wish = w, Unknown(m) PROVE FALSE
    <3>1. m.key = page[w].key  BY <2>4, <1>0, <1>2 DEF OneSession
    <3>. QED  BY <3>1, <2>2, <2>4 DEF Unknown, Known
  <2>. QED  BY <2>3, <2>4
<1>6. page'[w] = Nothing => reply[w].what = "expired"
  BY <1>2, <1>3
<1>. QED  BY <1>1, <1>2, <1>4, <1>5, <1>6, ClientAssumption DEF UploadLetGo, CreateLetGo

LEMMA AbandonDeserts ==
  ASSUME Types, NEW w \in Wishes, Abandon(w), faults' \in 0..MaxFaults
  PROVE  Deserts({w})
<1>1. /\ call' = [call EXCEPT ![w] = Nothing] /\ reply' = [reply EXCEPT ![w] = Nothing]
      /\ net' = {IF m.wish = w THEN [m EXCEPT !.live = FALSE] ELSE m : m \in net}
      /\ UNCHANGED <<page, shown, keys, closed, server>>
  BY DEF Abandon, Heard
<1>2. /\ call' = [v \in Wishes |-> IF v \in {w} THEN Nothing ELSE call[v]]
      /\ reply' = [v \in Wishes |-> IF v \in {w} THEN Nothing ELSE reply[v]]
  BY <1>1 DEF Types
<1>3. net' = {IF m.wish \in {w} THEN [m EXCEPT !.live = FALSE] ELSE m : m \in net}
  BY <1>1
<1>. QED  BY <1>1, <1>2, <1>3 DEF Deserts

LEMMA ReloadDeserts ==
  ASSUME Types, Reload
  PROVE  Deserts(Wishes)
<1>1. /\ page' = [w \in Wishes |-> Nothing] /\ closed'
      /\ call' = [w \in Wishes |-> IF w \in Wishes THEN Nothing ELSE call[w]]
      /\ reply' = [w \in Wishes |-> IF w \in Wishes THEN Nothing ELSE reply[w]]
      /\ UNCHANGED <<shown, keys, server>>
  BY DEF Reload
<1>2. faults' \in 0..MaxFaults
  BY ClientAssumption DEF Reload, Fault, Types
<1>3. net' = {IF m.wish \in Wishes THEN [m EXCEPT !.live = FALSE] ELSE m : m \in net}
  <2>1. \A m \in net : m.wish \in Wishes  BY DEF Types, Requests
  <2>2. net' = {[m EXCEPT !.live = FALSE] : m \in net}  BY DEF Reload
  <2>. QED  BY <2>1, <2>2
<1>. QED  BY <1>1, <1>2, <1>3 DEF Deserts

-----------------------------------------------------------------------------
(* The invariant is inductive *)

LEMMA ListeningStep ==
  ASSUME ClientInv, NEW w \in Wishes,
         TryCreate(w) \/ TryUpload(w) \/ Hear(w) \/ Broken(w) \/ TimeOut(w)
  PROVE  ClientInv'
<1>0. UploadInv /\ OneKey /\ Types  BY DEF ClientInv, UploadInv
<1>1. ASSUME \E step, p : Asks(w, step, p) PROVE ClientInv'
  <2>1. PICK step, p : Asks(w, step, p)  BY <1>1
  <2>2. Types'  BY <1>0, <2>1, AskTypes
  <2>3. Waiting' /\ OwnKeys'  BY <1>0, <2>1, AskWaits
  <2>4. Records' /\ OneSession' /\ Answers'  BY <1>0, <2>1, AskRecords
  <2>5. OneKey'  BY <2>1, AskOneKey
  <2>. QED  BY <2>2, <2>3, <2>4, <2>5 DEF ClientInv, UploadInv
<1>2. ASSUME Settles(w), UploadLetGo(w), CreateLetGo(w) PROVE ClientInv'
  BY <1>0, <1>2, SettleKeeps, SettleOneKey DEF ClientInv
<1>3. ASSUME NEW W, Deserts(W) PROVE ClientInv'
  BY <1>0, <1>3, DesertKeeps, DesertOneKey DEF ClientInv
<1>4. CASE TryCreate(w)  BY <1>0, <1>1, <1>4, TryCreateAsks
<1>5. CASE TryUpload(w)  BY <1>0, <1>1, <1>5, TryUploadAsks
<1>6. CASE CommandConfirmed(w)  BY <1>0, <1>2, <1>6, CommandSettles
<1>7. CASE CreateRefused(w)  BY <1>0, <1>2, <1>7, RefusedSettles
<1>8. CASE BeginConfirmed(w)  BY <1>0, <1>1, <1>8, BeginHeard
<1>9. CASE ProgressRead(w) \/ WriteConfirmed(w) \/ ExpiredTold(w)
  BY <1>0, <1>1, <1>9, UploadHeard
<1>10. CASE UploadRefused(w)  BY <1>0, <1>2, <1>10, UploadSettles
<1>11. CASE ExpiryConfirmed(w)  BY <1>0, <1>2, <1>11, ExpirySettles
<1>12. CASE Broken(w)
  <2>1. Abandon(w) /\ faults' \in 0..MaxFaults  BY <1>0, <1>12 DEF Broken, Types
  <2>. QED  BY <1>0, <1>3, <2>1, AbandonDeserts
<1>13. CASE TimeOut(w)
  <2>1. Abandon(w) /\ faults' \in 0..MaxFaults
    BY <1>0, <1>13, ClientAssumption DEF TimeOut, Fault, Types
  <2>. QED  BY <1>0, <1>3, <2>1, AbandonDeserts
<1>. QED
  BY <1>4, <1>5, <1>6, <1>7, <1>8, <1>9, <1>10, <1>11, <1>12, <1>13 DEF Hear

LEMMA ServerStep ==
  ASSUME ClientInv, NEW m \in net, Handle(m) \/ Refuse(m) \/ Lose(m) \/ WriteBreaks(m)
  PROVE  ClientInv'
<1>0. UploadInv /\ OneKey /\ Types /\ Waiting  BY DEF ClientInv, UploadInv
<1>1. CASE HandleCreate(m)
  <2>1. UploadInv'  BY <1>0, <1>1, CreateHandled, WaneKeeps
  <2>. QED  BY <1>1, <2>1, CreateOneKey DEF ClientInv
<1>2. ASSUME m.step # "create", Serves, UploadInv', made' = made, \E message : Answer(m, message),
             DOMAIN done' \subseteq DOMAIN done \cup {<<m.step, m.key>>}
      PROVE  ClientInv'
  BY <1>2, UploadOneKey DEF ClientInv
<1>3. CASE HandleBegin(m)  BY <1>0, <1>2, <1>3, BeginHandled DEF HandleBegin
<1>4. CASE HandleRead(m)
  <2>1. m.step # "create"  BY <1>4 DEF HandleRead
  <2>. QED  BY <1>0, <1>2, <1>4, <2>1, ReadHandled
<1>5. CASE HandleWrite(m)
  <2>1. m.step # "create"  BY <1>5 DEF HandleWrite
  <2>. QED  BY <1>0, <1>2, <1>5, <2>1, WriteHandled
<1>6. CASE HandleFinalize(m)
  <2>1. m.step # "create"  BY <1>6 DEF HandleFinalize
  <2>. QED  BY <1>0, <1>2, <1>6, <2>1, FinalizeHandled
<1>7. CASE Refuse(m)
  BY <1>0, <1>7, RefuseHandled, QuietOneKey DEF ClientInv
<1>8. CASE Lose(m)
  BY <1>0, <1>8, LoseHandled, QuietOneKey DEF ClientInv
<1>9. CASE WriteBreaks(m)
  BY <1>0, <1>9, BreakHandled, QuietOneKey DEF ClientInv
<1>. QED  BY <1>1, <1>3, <1>4, <1>5, <1>6, <1>7, <1>8, <1>9 DEF Handle

THEOREM StepKeepsInv == ClientInv /\ [Next]_vars => ClientInv'
<1>. SUFFICES ASSUME ClientInv, [Next]_vars PROVE ClientInv'  OBVIOUS
<1>0. UploadInv /\ OneKey /\ Types  BY DEF ClientInv, UploadInv
<1>1. CASE \E w \in Wishes : TryCreate(w) \/ TryUpload(w) \/ Hear(w) \/ Broken(w) \/ TimeOut(w)
  BY <1>1, ListeningStep
<1>2. CASE \E m \in net : Handle(m) \/ Refuse(m) \/ Lose(m) \/ WriteBreaks(m)
  BY <1>2, ServerStep
<1>3. CASE \E s \in DOMAIN sessions : Deadline(s)
  BY <1>0, <1>3, DeadlineHandled, QuietOneKey DEF ClientInv
<1>4. CASE Reload
  BY <1>0, <1>4, ReloadDeserts, DesertKeeps, DesertOneKey DEF ClientInv
<1>5. CASE UNCHANGED vars
  <2>1. /\ Untouched /\ UNCHANGED <<sessions, done>> /\ net' \subseteq net
        /\ made' \in [Wishes -> Nat] /\ faults' \in 0..MaxFaults /\ reply' = reply /\ made' = made
    BY <1>0, <1>5 DEF vars, client, server, Untouched, Types
  <2>2. Serves /\ DOMAIN sessions' = DOMAIN sessions
    BY <1>0, <2>1, StillServes
  <2>. QED  BY <1>0, <2>1, <2>2, WaneKeeps, QuietOneKey DEF ClientInv
<1>. QED  BY <1>1, <1>2, <1>3, <1>4, <1>5 DEF Next

\* In every behaviour the page, the network and the server agree on who has
\* which command, key and session.
THEOREM InvHolds == Spec => []ClientInv
<1>. QED  BY InitHolds, StepKeepsInv, PTL DEF Spec

-----------------------------------------------------------------------------
(* What follows *)

\* The variables have their types, a command whose bytes are sent has a
\* session, and a file's bytes on the server are a start of the file.
THEOREM TypesHold == Spec => []TypeOK
<1>1. ClientInv => TypeOK
  <2>. SUFFICES ASSUME ClientInv PROVE TypeOK  OBVIOUS
  <2>1. Types /\ Waiting  BY DEF ClientInv, UploadInv
  <2>2. ASSUME NEW s \in DOMAIN sessions
        PROVE  /\ sessions[s].file \in Files /\ sessions[s].status \in Statuses
               /\ IsPrefix(sessions[s].bytes, Rest(0, Size))
    <3>1. sessions[s] \in Sessions  BY <2>1, <2>2, Domains
    <3>2. PICK n \in 0..Size : sessions[s].bytes = Rest(0, n)  BY <3>1 DEF Sessions
    <3>3. Size \in Nat /\ n \in Nat /\ n <= Size /\ 0 <= n /\ 0 <= Size /\ n - 0 = n /\ Size - 0 = Size
      BY <3>2, ClientAssumption
    <3>4. /\ Rest(0, n) \in Seq(Nat) /\ Len(Rest(0, n)) = n
          /\ Rest(0, Size) \in Seq(Nat) /\ Len(Rest(0, Size)) = Size
      BY <3>3, RestIsSeq
    <3>5. /\ \A i \in 1..n : Rest(0, n)[i] = i
          /\ \A i \in 1..Size : Rest(0, Size)[i] = i
      BY <3>3 DEF Rest
    <3>6. SubSeq(Rest(0, n), 1, n) = SubSeq(Rest(0, Size), 1, n)
      <4>1. /\ SubSeq(Rest(0, n), 1, n) \in Seq(Nat) /\ Len(SubSeq(Rest(0, n), 1, n)) = n
            /\ \A i \in 1..n : SubSeq(Rest(0, n), 1, n)[i] = Rest(0, n)[i]
        BY <3>3, <3>4
      <4>2. /\ SubSeq(Rest(0, Size), 1, n) \in Seq(Nat) /\ Len(SubSeq(Rest(0, Size), 1, n)) = n
            /\ \A i \in 1..n : SubSeq(Rest(0, Size), 1, n)[i] = Rest(0, Size)[i]
        BY <3>3, <3>4
      <4>3. \A i \in 1..n : SubSeq(Rest(0, n), 1, n)[i] = SubSeq(Rest(0, Size), 1, n)[i]
        BY <3>3, <3>5, <4>1, <4>2
      <4>. QED  BY <4>1, <4>2, <4>3, SeqEqual
    <3>. QED  BY <3>1, <3>2, <3>3, <3>4, <3>6 DEF IsPrefix, Sessions
  <2>. QED  BY <2>1, <2>2 DEF TypeOK, Types, Waiting
<1>. QED  BY <1>1, InvHolds, PTL

LEMMA AtMostOne ==
  ASSUME NEW S, \A x, y \in S : x = y
  PROVE  IsFiniteSet(S) /\ Cardinality(S) \in {0, 1} /\ (S # {} => Cardinality(S) = 1)
<1>1. CASE S = {}  BY <1>1, FS_EmptySet
<1>2. CASE S # {}
  <2>1. PICK x : S = {x}  BY <1>2
  <2>. QED  BY <2>1, FS_Singleton
<1>. QED  BY <1>1, <1>2

\* A second session is begun for a file only when the first can never be
\* finalised any more, whatever is lost, repeated or late.
THEOREM LiveSessionIsOne == Spec => []OneLiveSession
<1>1. ClientInv => OneLiveSession
  <2>. SUFFICES ASSUME ClientInv, NEW w \in Files
                PROVE  Cardinality({s \in SessionsOf(w) : sessions[s].status # "expired"}) <= 1
    BY DEF OneLiveSession
  <2>1. \A x, y \in {s \in SessionsOf(w) : sessions[s].status # "expired"} : x = y
    BY DEF ClientInv, UploadInv, OneSession
  <2>2. Cardinality({s \in SessionsOf(w) : sessions[s].status # "expired"}) \in {0, 1}
    BY <2>1, AtMostOne
  <2>. QED  BY <2>2
<1>. QED  BY <1>1, InvHolds, PTL

\* A file is uploaded, and a create that keeps its key is done, at most once,
\* and shown as done only if it is; what other creates do makes no difference.
CarefulOnce ==
  \A w \in Files \cup Careful : Committed(w) <= 1 /\ (w \in shown => Committed(w) = 1)

THEOREM CarefulIsOnce == Spec => []CarefulOnce
<1>1. ClientInv => CarefulOnce
  <2>. SUFFICES ASSUME ClientInv, NEW w \in Files \cup Careful
                PROVE  Committed(w) <= 1 /\ (w \in shown => Committed(w) = 1)
    BY DEF CarefulOnce
  <2>0. Types /\ Waiting /\ OneSession /\ Answers /\ OneKey  BY DEF ClientInv, UploadInv
  <2>. DEFINE F == {s \in SessionsOf(w) : sessions[s].status = "finalized"}
  <2>1. CASE w \in Files
    <3>1. \A x, y \in F : x = y  BY <2>0, <2>1 DEF OneSession
    <3>2. w \in shown => F # {}  BY <2>0, <2>1 DEF Answers, Finalized
    <3>3. made[w] = 0  BY <2>0, <2>1 DEF OneKey
    <3>. HIDE DEF F
    <3>4. Cardinality(F) \in {0, 1} /\ (F # {} => Cardinality(F) = 1)  BY <3>1, AtMostOne
    <3>5. Committed(w) = 0 + Cardinality(F)  BY <3>3 DEF Committed, F
    <3>. QED  BY <3>2, <3>4, <3>5
  <2>2. CASE w \in Careful
    <3>1. w \notin Files /\ w \in Wishes  BY <2>2, ClientAssumption DEF Wishes
    <3>2. F = {}  BY <2>0, <3>1, Domains DEF SessionsOf, Sessions
    <3>. HIDE DEF F
    <3>3. Cardinality(F) = 0  BY <3>2, FS_EmptySet
    <3>4. made[w] \in Nat /\ made[w] <= 1 /\ (w \in shown => made[w] = 1)
      BY <2>0, <2>2, <3>1 DEF OneKey, Types
    <3>5. Committed(w) = made[w] + Cardinality(F)  BY DEF Committed, F
    <3>. QED  BY <3>3, <3>4, <3>5
  <2>. QED  BY <2>1, <2>2
<1>. QED  BY <1>1, InvHolds, PTL

\* What the user asked for once is never done twice and is shown as done only
\* if it is, when every create keeps its key while an attempt is in doubt.
THEOREM NothingIsDoneTwice ==
  ASSUME AllCareful
  PROVE  Spec => []ExactlyOnce
<1>1. CarefulOnce => ExactlyOnce
  BY AllCareful DEF CarefulOnce, ExactlyOnce, Wishes, AllCareful
<1>. QED  BY <1>1, CarefulIsOnce, PTL
=============================================================================
