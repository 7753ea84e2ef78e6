-------------------------- MODULE DnsProxy_proofs --------------------------
(***************************************************************************)
(* Proofs that the proxy answers each datagram at most once and as         *)
(* DnsService permits, that it gives no address of a policy's domain       *)
(* before the cache has it, and that it asks its upstreams in order: for   *)
(* any number of datagrams, upstreams and kills; and that no datagram      *)
(* waits longer for what upstreams and clients do.                         *)
(***************************************************************************)
EXTENDS DnsProxy, TLAPS

(* What is known of the variables in themselves.  The bounds TypeOK puts   *)
(* on the number of ports and answers are not needed.                      *)
Shapes ==
    /\ settings \in Setting
    /\ arrived \in Seq(Query) /\ inbox \in Seq(Nat)
    /\ bound \in Nat
    /\ pc \in {"off", "idle", "ask", "wait", "store", "respond"}
    /\ cur \in 0..Len(arrived) /\ (cur = 0 <=> pc \in {"off", "idle"})
    /\ idx \in 1..Len(Upstreams) /\ failures \in Seq(Upstream)

(* Datagrams are handled in the order in which they arrive: the answered   *)
(* ones have come before the one in hand, which came before those waiting. *)
InOrder ==
    /\ \A i \in DOMAIN inbox : inbox[i] \in 1..Len(arrived) /\ inbox[i] > cur
    /\ \A i, j \in DOMAIN inbox : i < j => inbox[i] < inbox[j]
    /\ \A g \in given : /\ g.id \in 1..Len(arrived)
                        /\ cur # 0 => g.id < cur
                        /\ \A i \in DOMAIN inbox : g.id < inbox[i]

(* The socket in use belongs to the request in hand.                       *)
OwnSocket ==
    /\ \A x \in requests : x.port \in 0..bound
    /\ pc = "wait" => \A x \in requests :
          x.port = bound => x.query = Question /\ x.to = Upstreams[idx]

(* What is known of the question and of the answer while they are in hand. *)
Forwarded ==
    /\ Parsable(Question)
    /\ ~(Question.kind = "AAAA" /\ Question.name \in PolicyName /\ settings.denyAaaa)

Ready ==
    /\ pc \in {"ask", "wait", "store"} => Forwarded
    /\ pc = "store" => resp.what = "reply" /\ Service!MayPass(Question, resp)
    /\ pc = "respond" => Service!Permitted(Question, resp)

IInv == Shapes /\ InOrder /\ OwnSocket /\ Ready

-----------------------------------------------------------------------------
LEMMA QueryFields == Shapes /\ cur # 0 => Question \in Query /\ Question.kind \in Kind
<1>1. SUFFICES ASSUME Shapes, cur # 0 PROVE Question \in Query /\ Question.kind \in Kind
    OBVIOUS
<1>2. Question \in Query
    BY <1>1 DEF Shapes, Question
<1>3. QED
    BY <1>2, ProxyAssumption

LEMMA InitInv == Init => IInv
<1>1. SUFFICES ASSUME Init PROVE IInv
    OBVIOUS
<1>2. Shapes
    BY <1>1, ProxyAssumption DEF Init, Shapes
<1>3. InOrder /\ OwnSocket /\ Ready
    BY <1>1 DEF Init, InOrder, OwnSocket, Ready
<1>4. QED
    BY <1>2, <1>3 DEF IInv

(* A datagram gets the next number, and no question changes.               *)
LEMMA ArriveInv == IInv /\ Arrive => IInv'
<1>1. SUFFICES ASSUME IInv, Arrive PROVE IInv'
    OBVIOUS
<1>2. PICK q \in Query : arrived' = Append(arrived, q)
    BY <1>1 DEF Arrive
<1>3. /\ arrived' \in Seq(Query) /\ Len(arrived') = Len(arrived) + 1
      /\ Len(arrived) \in Nat
      /\ \A n \in 1..Len(arrived) : arrived'[n] = arrived[n]
    BY <1>1, <1>2 DEF IInv, Shapes
<1>4. inbox' = inbox \/ inbox' = Append(inbox, Len(arrived) + 1)
    BY <1>1 DEF Arrive
<1>5. UNCHANGED <<settings, requests, bound, pc, cur, idx, failures, resp, given>>
    BY <1>1 DEF Arrive, locals
<1>6. Shapes'
  <2>1. inbox' \in Seq(Nat)
    <3>1. inbox \in Seq(Nat) /\ Len(arrived) + 1 \in Nat
        BY <1>1, <1>3 DEF IInv, Shapes
    <3>2. Append(inbox, Len(arrived) + 1) \in Seq(Nat)
        BY <3>1
    <3>3. QED
        BY <1>4, <3>1, <3>2
  <2>2. QED
      BY <1>1, <1>3, <1>5, <2>1 DEF IInv, Shapes
<1>7. InOrder'
  <2>1. CASE inbox' = inbox
      BY <1>1, <1>3, <1>5, <2>1 DEF IInv, InOrder
  <2>2. CASE inbox' = Append(inbox, Len(arrived) + 1)
    <3>1. /\ Len(inbox) \in Nat /\ DOMAIN inbox = 1..Len(inbox)
          /\ DOMAIN inbox' = 1..(Len(inbox) + 1)
          /\ \A i \in 1..Len(inbox) : inbox'[i] = inbox[i]
          /\ inbox'[Len(inbox) + 1] = Len(arrived) + 1
        BY <1>1, <1>3, <2>2 DEF IInv, Shapes
    <3>2. cur \in 0..Len(arrived) /\ cur' = cur /\ given' = given
        BY <1>1, <1>5 DEF IInv, Shapes
    <3>3. \A i \in DOMAIN inbox' : inbox'[i] \in 1..Len(arrived)' /\ inbox'[i] > cur'
        BY <1>1, <1>3, <3>1, <3>2 DEF IInv, InOrder
    <3>4. \A i, j \in DOMAIN inbox' : i < j => inbox'[i] < inbox'[j]
        BY <1>1, <1>3, <3>1 DEF IInv, InOrder
    <3>5. \A g \in given' : /\ g.id \in 1..Len(arrived)'
                            /\ cur' # 0 => g.id < cur'
                            /\ \A i \in DOMAIN inbox' : g.id < inbox'[i]
      <4>1. \A g \in given : /\ g.id \in 1..Len(arrived) /\ (cur # 0 => g.id < cur)
                             /\ \A i \in DOMAIN inbox : g.id < inbox[i]
          BY <1>1 DEF IInv, InOrder
      <4>2. Len(arrived)' = Len(arrived) + 1 /\ Len(arrived) \in Nat
          BY <1>3
      <4>3. QED
          BY <3>1, <3>2, <4>1, <4>2
    <3>6. QED
        BY <3>3, <3>4, <3>5 DEF InOrder
  <2>3. QED
      BY <1>4, <2>1, <2>2
<1>8. cur # 0 => Question' = Question
    BY <1>1, <1>3, <1>5 DEF IInv, Shapes, Question
<1>9. pc \in {"ask", "wait", "store", "respond"} => cur # 0
    BY <1>1 DEF IInv, Shapes
<1>10. OwnSocket' /\ Ready'
  <2>1. OwnSocket'
      BY <1>1, <1>5, <1>8, <1>9 DEF IInv, OwnSocket
  <2>2. Ready'
      BY <1>1, <1>5, <1>8, <1>9 DEF IInv, Ready, Forwarded, Parsable,
         Service!MayPass, Service!Permitted, Service!Parsable, Service!IsPolicyDomain
  <2>3. QED
      BY <2>1, <2>2
<1>11. QED
    BY <1>6, <1>7, <1>10 DEF IInv

LEMMA ReceiveInv == IInv /\ Receive => IInv'
<1>1. SUFFICES ASSUME IInv, Receive PROVE IInv'
    OBVIOUS
<1>2. /\ inbox # <<>> /\ inbox \in Seq(Nat) /\ pc = "idle" /\ cur = 0
      /\ cur' = inbox[1] /\ inbox' = Tail(inbox)
      /\ UNCHANGED <<settings, arrived, requests, bound, idx, failures, given>>
    BY <1>1 DEF IInv, Shapes, Receive, clients
<1>3. /\ inbox' \in Seq(Nat) /\ 1 \in DOMAIN inbox
      /\ \A i \in DOMAIN inbox' : i + 1 \in DOMAIN inbox /\ inbox'[i] = inbox[i + 1]
    BY <1>2
<1>4. cur' \in 1..Len(arrived) /\ cur' # 0 /\ pc' \in {"ask", "respond"}
    BY <1>1, <1>2, <1>3 DEF IInv, InOrder, Receive
<1>5. Shapes'
    BY <1>1, <1>2, <1>3, <1>4 DEF IInv, Shapes
<1>6. InOrder'
  <2>1. /\ \A i \in DOMAIN inbox : inbox[i] \in 1..Len(arrived)
        /\ \A i, j \in DOMAIN inbox : i < j => inbox[i] < inbox[j]
        /\ \A g \in given : /\ g.id \in 1..Len(arrived)
                           /\ \A i \in DOMAIN inbox : g.id < inbox[i]
      BY <1>1 DEF IInv, InOrder
  <2>2. /\ Len(arrived)' = Len(arrived) /\ given' = given /\ cur' = inbox[1]
        /\ \A i \in DOMAIN inbox' : 1 < i + 1 /\ \A j \in DOMAIN inbox' : i < j => i + 1 < j + 1
      BY <1>2, <1>3
  <2>3. \A i \in DOMAIN inbox' : inbox'[i] \in 1..Len(arrived)' /\ inbox'[i] > cur'
      BY <1>3, <2>1, <2>2
  <2>4. \A i, j \in DOMAIN inbox' : i < j => inbox'[i] < inbox'[j]
      BY <1>3, <2>1, <2>2
  <2>5. \A g \in given' : /\ g.id \in 1..Len(arrived)'
                          /\ cur' # 0 => g.id < cur'
                          /\ \A i \in DOMAIN inbox' : g.id < inbox'[i]
      BY <1>3, <2>1, <2>2
  <2>6. QED
      BY <2>3, <2>4, <2>5 DEF InOrder
<1>7. OwnSocket'
    BY <1>1, <1>2, <1>4 DEF IInv, OwnSocket
<1>8. Question' = arrived[inbox[1]] /\ Question' \in Query /\ Question'.kind \in Kind
    BY <1>2, <1>4, <1>5, ProxyAssumption DEF Question, Shapes
<1>9. resp' = Classify(Question') /\ pc' = IF resp' = None THEN "ask" ELSE "respond"
    BY <1>1, <1>2, <1>8 DEF Receive
<1>10. Ready'
    BY <1>2, <1>8, <1>9 DEF Ready, Forwarded, Parsable, Classify, Kind, None, Echo, Servfail,
       Refused, Service!Permitted, Service!MayPass, Service!Parsable, Service!IsPolicyDomain
<1>11. QED
    BY <1>5, <1>6, <1>7, <1>10 DEF IInv

(* The new socket has a number no earlier request has.                     *)
LEMMA AskInv == IInv /\ Ask => IInv'
<1>1. SUFFICES ASSUME IInv, Ask PROVE IInv'
    OBVIOUS
<1>2. /\ pc = "ask" /\ pc' = "wait" /\ bound' = bound + 1 /\ bound \in Nat
      /\ UNCHANGED <<settings, arrived, inbox, cur, idx, failures, resp, given>>
    BY <1>1 DEF IInv, Shapes, Ask, clients, locals
<1>3. Shapes' /\ InOrder'
    BY <1>1, <1>2 DEF IInv, Shapes, InOrder
<1>4. Question' = Question
    BY <1>2 DEF Question
<1>5. OwnSocket'
    BY <1>1, <1>2, <1>4 DEF IInv, OwnSocket, Ask
<1>6. Ready'
    BY <1>1, <1>2, <1>4 DEF IInv, Ready, Forwarded, Parsable
<1>7. QED
    BY <1>3, <1>5, <1>6 DEF IInv

(* A step that keeps the datagram in hand, to the next upstream or to an   *)
(* answer that is permitted.                                               *)
LEMMA GoesOn ==
    ASSUME IInv, UNCHANGED <<settings, arrived, inbox, requests, bound, cur, given>>,
           idx' \in 1..Len(Upstreams), failures' \in Seq(Upstream), cur # 0,
           Forwarded,
           \/ pc' = "ask"
           \/ pc' = "store" /\ resp'.what = "reply" /\ Service!MayPass(Question, resp')
           \/ pc' = "respond" /\ Service!Permitted(Question, resp')
    PROVE  IInv'
<1>1. Question' = Question
    BY DEF Question
<1>2. Shapes' /\ InOrder' /\ OwnSocket'
    BY DEF IInv, Shapes, InOrder, OwnSocket
<1>3. Ready'
    BY <1>1 DEF Ready, Forwarded, Parsable,
       Service!MayPass, Service!Permitted, Service!Parsable, Service!IsPolicyDomain
<1>4. QED
    BY <1>2, <1>3 DEF IInv

LEMMA UpstreamFailsInv ==
    ASSUME IInv, AskFails \/ Timeout PROVE IInv'
<1>1. /\ pc \in {"ask", "wait"} /\ UpstreamFails
      /\ UNCHANGED <<settings, arrived, inbox, requests, bound, cur, given>>
    BY DEF AskFails, Timeout, clients
<1>2. Forwarded /\ cur # 0 /\ idx \in 1..Len(Upstreams) /\ failures \in Seq(Upstream)
    BY <1>1 DEF IInv, Shapes, Ready
<1>3. failures' \in Seq(Upstream)
  <2>1. Upstreams[idx] \in Upstream
      BY <1>2, ProxyAssumption DEF Upstream
  <2>2. QED
      BY <1>1, <1>2, <2>1 DEF UpstreamFails
<1>4. CASE idx < Len(Upstreams) /\ idx' = idx + 1 /\ pc' = "ask"
    BY <1>1, <1>2, <1>3, <1>4, GoesOn
<1>5. CASE idx' = idx /\ Respond(IF IsPolicyDomain /\ settings.deny THEN Refused ELSE Servfail)
  <2>1. Service!Permitted(Question, resp')
      BY <1>2, <1>5 DEF Respond, Refused, Servfail, Forwarded, Parsable, IsPolicyDomain,
         Service!Permitted, Service!IsPolicyDomain, Service!Parsable
  <2>2. QED
      BY <1>1, <1>2, <1>3, <1>5, <2>1, GoesOn DEF Respond
<1>6. QED
    BY <1>1, <1>4, <1>5 DEF UpstreamFails

(* A reply comes to the socket in use, so it is to the question in hand.   *)
LEMMA TakeReplyInv == IInv /\ TakeReply => IInv'
<1>1. SUFFICES ASSUME IInv, TakeReply PROVE IInv'
    OBVIOUS
<1>2. /\ pc = "wait"
      /\ UNCHANGED <<settings, arrived, inbox, requests, bound, cur, idx, failures, given>>
    BY <1>1 DEF TakeReply, clients
<1>3. Forwarded /\ cur # 0 /\ idx \in 1..Len(Upstreams) /\ failures \in Seq(Upstream)
    BY <1>1, <1>2 DEF IInv, Shapes, Ready
<1>4. PICK q \in {x \in requests : x.port = bound}, ips \in SUBSET Ip, parses \in BOOLEAN :
          LET r == [what |-> "reply", from |-> q.to, query |-> q.query,
                    ips |-> ips, parses |-> parses]
          IN IF IsPolicyDomain /\ Question.kind = "A"
             THEN CASE ~parses  -> Respond(Servfail)
                    [] parses /\ ips = {} -> Respond(IF settings.deny THEN Refused ELSE r)
                    [] parses /\ ips # {} ->
                          /\ resp' = r
                          /\ pc' = IF settings.cache THEN "store" ELSE "respond"
             ELSE Respond(r)
    BY <1>1 DEF TakeReply
<1> DEFINE r == [what |-> "reply", from |-> q.to, query |-> q.query,
                 ips |-> ips, parses |-> parses]
<1>5. q.query = Question
    BY <1>1, <1>2 DEF IInv, OwnSocket
<1>6. /\ Parsable(Question) /\ IsPolicyDomain = Service!IsPolicyDomain(Question)
      /\ Service!Parsable(Question)
      /\ ~(Question.kind = "AAAA" /\ Question.name \in PolicyName /\ settings.denyAaaa)
    BY <1>3 DEF Forwarded, IsPolicyDomain, Parsable, Service!IsPolicyDomain, Service!Parsable
<1>7. \/ pc' = "store" /\ resp'.what = "reply" /\ Service!MayPass(Question, resp')
      \/ pc' = "respond" /\ Service!Permitted(Question, resp')
  <2>1. CASE ~(IsPolicyDomain /\ Question.kind = "A")
    <3>1. pc' = "respond" /\ resp' = r
        BY <1>4, <2>1 DEF Respond
    <3>2. Service!MayPass(Question, r)
        BY <1>5, <1>6, <2>1 DEF Service!MayPass, Service!IsPolicyDomain
    <3>3. QED
        BY <3>1, <3>2 DEF Service!Permitted
  <2>2. CASE IsPolicyDomain /\ Question.kind = "A" /\ ~parses
    <3>1. pc' = "respond" /\ resp' = Servfail
        BY <1>4, <2>2 DEF Respond
    <3>2. Question.kind # "short"
        BY <1>6 DEF Parsable
    <3>3. Service!Permitted(Question, Servfail)
        BY <3>2 DEF Servfail, Service!Permitted
    <3>4. QED
        BY <3>1, <3>3
  <2>3. CASE IsPolicyDomain /\ Question.kind = "A" /\ parses /\ ips = {}
    <3>1. pc' = "respond" /\ resp' = IF settings.deny THEN Refused ELSE r
        BY <1>4, <2>3 DEF Respond
    <3>2. ~settings.deny => Service!MayPass(Question, r)
        BY <1>5, <1>6, <2>3 DEF Service!MayPass
    <3>3. QED
        BY <1>6, <2>3, <3>1, <3>2 DEF Refused, Service!Permitted
  <2>4. CASE IsPolicyDomain /\ Question.kind = "A" /\ parses /\ ips # {}
    <3>1. pc' \in {"store", "respond"} /\ resp' = r
        BY <1>4, <2>4
    <3>2. Service!MayPass(Question, r)
        BY <1>5, <1>6, <2>4 DEF Service!MayPass
    <3>3. QED
        BY <3>1, <3>2 DEF Service!Permitted
  <2>5. QED
      BY <2>1, <2>2, <2>3, <2>4
<1>8. QED
    BY <1>1, <1>2, <1>3, <1>7, GoesOn

LEMMA StoreInv == ASSUME IInv, Store \/ StoreFails PROVE IInv'
<1>1. /\ pc = "store" /\ pc' = "respond"
      /\ UNCHANGED <<settings, arrived, inbox, requests, bound, cur, idx, failures, given>>
    BY DEF Store, StoreFails, Respond, clients, locals
<1>2. /\ Forwarded /\ cur # 0 /\ idx \in 1..Len(Upstreams) /\ failures \in Seq(Upstream)
      /\ resp.what = "reply" /\ Service!MayPass(Question, resp)
    BY <1>1 DEF IInv, Shapes, Ready
<1>3. resp' = resp \/ resp' = Servfail
    BY DEF Store, StoreFails, Respond, locals
<1>4. Service!Permitted(Question, resp')
  <2>1. CASE resp' = resp
      BY <1>2, <2>1 DEF Service!Permitted
  <2>2. CASE resp' = Servfail
      BY <1>2, <2>2 DEF Servfail, Service!Permitted, Forwarded, Parsable
  <2>3. QED
      BY <1>3, <2>1, <2>2
<1>5. QED
    BY <1>1, <1>2, <1>4, GoesOn

(* The datagram in hand becomes an answered one.                           *)
LEMMA SendInv == IInv /\ Send => IInv'
<1>1. SUFFICES ASSUME IInv, Send PROVE IInv'
    OBVIOUS
<1>2. /\ pc = "respond" /\ pc' = "idle" /\ cur' = 0 /\ idx' = 1 /\ failures' = <<>>
      /\ given' = given \cup {[id |-> cur, resp |-> resp, failures |-> failures]}
      /\ UNCHANGED <<settings, arrived, inbox, requests, bound>>
    BY <1>1 DEF Send, clients
<1>3. cur \in 1..Len(arrived)
    BY <1>1, <1>2 DEF IInv, Shapes
<1>4. Shapes'
    BY <1>1, <1>2, ProxyAssumption DEF IInv, Shapes
<1>5. InOrder'
    BY <1>1, <1>2, <1>3 DEF IInv, Shapes, InOrder
<1>6. OwnSocket' /\ Ready'
    BY <1>1, <1>2 DEF IInv, OwnSocket, Ready
<1>7. QED
    BY <1>4, <1>5, <1>6 DEF IInv

LEMMA CrashInv == IInv /\ Crash => IInv'
<1>1. SUFFICES ASSUME IInv, Crash PROVE IInv'
    OBVIOUS
<1>2. /\ pc' = "off" /\ inbox' = <<>> /\ cur' = 0 /\ idx' = 1 /\ failures' = <<>>
      /\ UNCHANGED <<settings, arrived, requests, bound, given>>
    BY <1>1 DEF Crash, clients
<1>3. Shapes'
    BY <1>1, <1>2, ProxyAssumption DEF IInv, Shapes
<1>4. InOrder' /\ OwnSocket' /\ Ready'
    BY <1>1, <1>2 DEF IInv, InOrder, OwnSocket, Ready
<1>5. QED
    BY <1>3, <1>4 DEF IInv

LEMMA RestartInv == IInv /\ Restart => IInv'
<1>1. SUFFICES ASSUME IInv, Restart PROVE IInv'
    OBVIOUS
<1>2. /\ pc = "off" /\ pc' = "idle"
      /\ UNCHANGED <<settings, arrived, inbox, requests, bound, cur, idx, failures, given>>
    BY <1>1 DEF Restart, clients, locals
<1>3. Shapes' /\ InOrder' /\ OwnSocket' /\ Ready'
    BY <1>1, <1>2 DEF IInv, Shapes, InOrder, OwnSocket, Ready
<1>4. QED
    BY <1>3 DEF IInv

LEMMA NextInv == IInv /\ [Next]_vars => IInv'
<1>1. SUFFICES ASSUME IInv, [Next]_vars PROVE IInv'
    OBVIOUS
<1>2. CASE UNCHANGED vars
    BY <1>1, <1>2 DEF vars, clients, locals, IInv, Shapes, InOrder, OwnSocket, Ready, Forwarded,
       Question, Parsable, Service!MayPass, Service!Permitted, Service!Parsable,
       Service!IsPolicyDomain
<1>3. CASE Next
    BY <1>1, <1>3, ArriveInv, ReceiveInv, AskInv, UpstreamFailsInv, TakeReplyInv, StoreInv,
       SendInv, CrashInv, RestartInv DEF Next, Proxy
<1>4. QED
    BY <1>1, <1>2, <1>3

-----------------------------------------------------------------------------
(* The answers given, as the abstract specification sees them.             *)
Answers == {[id |-> g.id, resp |-> g.resp] : g \in given}

LEMMA InitServes == Init => Service!Init
<1>1. SUFFICES ASSUME Init PROVE Service!Init
    OBVIOUS
<1>2. arrived = <<>> /\ inbox = <<>> /\ cur = 0 /\ given = {}
    BY <1>1 DEF Init
<1>3. Pending = {}
    BY <1>2 DEF Pending
<1>4. QED
    BY <1>2, <1>3 DEF Service!Init

(* A datagram joins the pending ones, or is dropped.                       *)
LEMMA ArriveServes ==
    IInv /\ Arrive => Service!Ask /\ UNCHANGED settings
<1>1. SUFFICES ASSUME IInv, Arrive PROVE Service!Ask /\ UNCHANGED settings
    OBVIOUS
<1>2. /\ \E q \in Query : arrived' = Append(arrived, q)
      /\ UNCHANGED <<settings, cur, given>>
    BY <1>1 DEF Arrive, locals
<1>3. inbox \in Seq(Nat) /\ Len(arrived) + 1 \in Nat
    BY <1>1 DEF IInv, Shapes
<1>4. CASE inbox' = inbox
    BY <1>2, <1>4 DEF Service!Ask, Pending
<1>5. CASE inbox' = Append(inbox, Len(arrived) + 1)
  <2>1. /\ Len(inbox) \in Nat /\ DOMAIN inbox = 1..Len(inbox)
        /\ DOMAIN inbox' = 1..(Len(inbox) + 1)
        /\ \A i \in 1..Len(inbox) : inbox'[i] = inbox[i]
        /\ inbox'[Len(inbox) + 1] = Len(arrived) + 1
      BY <1>3, <1>5
  <2>2. {inbox'[i] : i \in DOMAIN inbox'} =
            {inbox[i] : i \in DOMAIN inbox} \cup {Len(arrived) + 1}
      BY <2>1
  <2>3. Pending' = Pending \cup {Len(arrived) + 1}
      BY <1>2, <2>2 DEF Pending
  <2>4. QED
      BY <1>2, <2>3 DEF Service!Ask
<1>6. QED
    BY <1>1, <1>4, <1>5 DEF Arrive

(* The datagram taken from the buffer is the one in hand.                  *)
LEMMA ReceiveServes ==
    IInv /\ Receive => UNCHANGED <<settings, arrived, Pending, Answers>>
<1>1. SUFFICES ASSUME IInv, Receive
               PROVE  UNCHANGED <<settings, arrived, Pending, Answers>>
    OBVIOUS
<1>2. /\ cur = 0 /\ inbox # <<>> /\ cur' = Head(inbox) /\ inbox' = Tail(inbox)
      /\ UNCHANGED <<settings, arrived, given>>
    BY <1>1 DEF Receive, IInv, Shapes, clients
<1>3. /\ Len(inbox) \in Nat \ {0} /\ DOMAIN inbox = 1..Len(inbox)
      /\ DOMAIN inbox' = 1..(Len(inbox) - 1) /\ cur' = inbox[1]
      /\ \A i \in DOMAIN inbox' : inbox'[i] = inbox[i + 1]
    BY <1>1, <1>2 DEF IInv, Shapes
<1>4. \A i \in DOMAIN inbox : i = 1 \/ (i - 1 \in DOMAIN inbox' /\ inbox'[i - 1] = inbox[i])
    BY <1>3
<1>5. \A i \in DOMAIN inbox' : i + 1 \in DOMAIN inbox
    BY <1>3
<1>6. {inbox[i] : i \in DOMAIN inbox} = {inbox'[i] : i \in DOMAIN inbox'} \cup {cur'}
    BY <1>3, <1>4, <1>5
<1>7. cur' # 0
    BY <1>1, <1>2, <1>3 DEF IInv, InOrder
<1>8. Pending' = Pending
    BY <1>2, <1>6, <1>7 DEF Pending
<1>9. QED
    BY <1>2, <1>8 DEF Answers

(* The answer is to the datagram in hand, which has had none.              *)
LEMMA SendServes ==
    IInv /\ Send => Service!Answer /\ UNCHANGED settings
<1>1. SUFFICES ASSUME IInv, Send PROVE Service!Answer /\ UNCHANGED settings
    OBVIOUS
<1>2. /\ pc = "respond" /\ cur' = 0
      /\ given' = given \cup {[id |-> cur, resp |-> resp, failures |-> failures]}
      /\ UNCHANGED <<settings, arrived, inbox>>
    BY <1>1 DEF Send, clients
<1>3. cur # 0 /\ Service!Permitted(Question, resp)
    BY <1>1, <1>2 DEF IInv, Shapes, Ready
<1> DEFINE a == [id |-> cur, resp |-> resp]
<1> DEFINE b == [id |-> cur, resp |-> resp, failures |-> failures]
<1>4. Answers' = Answers \cup {a}
  <2>1. given' = given \cup {b} /\ b.id = cur /\ b.resp = resp
      BY <1>2
  <2> HIDE DEF b
  <2>2. {[id |-> g.id, resp |-> g.resp] : g \in given'} =
            {[id |-> g.id, resp |-> g.resp] : g \in given} \cup {[id |-> b.id, resp |-> b.resp]}
      BY <2>1, Zenon
  <2>3. QED
      BY <2>1, <2>2 DEF Answers
<1>5. \A g \in Answers : g.id # cur
    BY <1>1, <1>3 DEF IInv, Shapes, InOrder, Answers
<1>6. cur \in Pending /\ Pending' = Pending \ {cur}
  <2>1. \A i \in DOMAIN inbox : inbox[i] # cur
      BY <1>1 DEF IInv, Shapes, InOrder
  <2>2. QED
      BY <1>2, <1>3, <2>1 DEF Pending
<1>7. a \in Answers' /\ a.id = cur /\ a.resp = resp
    BY <1>4
<1>8. QED
    BY <1>2, <1>3, <1>4, <1>5, <1>6, <1>7 DEF Service!Answer, Question, Answers

(* What the proxy had received is lost with it.                            *)
LEMMA CrashServes ==
    Crash => Service!Lose /\ UNCHANGED settings
<1>1. SUFFICES ASSUME Crash PROVE Service!Lose /\ UNCHANGED settings
    OBVIOUS
<1>2. inbox' = <<>> /\ cur' = 0 /\ UNCHANGED <<settings, arrived, given>>
    BY <1>1 DEF Crash, clients
<1>3. Pending' = {}
    BY <1>2 DEF Pending
<1>4. QED
    BY <1>2, <1>3 DEF Service!Lose

(* Each step of the proxy is a step of the service or none.                *)
LEMMA NextServes ==
    IInv /\ [Next]_vars => [Service!Next]_<<settings, arrived, Pending, Answers>>
<1>1. SUFFICES ASSUME IInv, [Next]_vars
               PROVE  [Service!Next]_<<settings, arrived, Pending, Answers>>
    OBVIOUS
<1>2. CASE UNCHANGED <<settings, arrived, inbox, cur, given>>
    BY <1>2 DEF Pending, Answers
<1>3. CASE UNCHANGED vars \/ Ask \/ AskFails \/ Timeout \/ TakeReply \/ Store \/ StoreFails \/ Restart
    BY <1>2, <1>3 DEF vars, clients, locals, Ask, AskFails, Timeout, UpstreamFails, TakeReply,
       Store, StoreFails, Restart
<1>4. CASE Arrive
    BY <1>1, <1>4, ArriveServes DEF Service!Next
<1>5. CASE Receive
    BY <1>1, <1>5, ReceiveServes
<1>6. CASE Send
    BY <1>1, <1>6, SendServes DEF Service!Next
<1>7. CASE Crash
    BY <1>7, CrashServes DEF Service!Next
<1>8. QED
    BY <1>1, <1>3, <1>4, <1>5, <1>6, <1>7 DEF Next, Proxy

(* dns_proxy.rs:57-76, 100-210.  Each datagram the proxy has received is   *)
(* answered at most once, with an answer to its own question that the      *)
(* settings allow, whatever arrives late, fails or is killed: the proxy    *)
(* implements DnsService.                                                  *)
THEOREM ProxyServes == Spec => Serves
<1>1. Init => IInv /\ Service!Init
    BY InitInv, InitServes
<1>2. IInv /\ [Next]_vars => IInv'
    BY NextInv
<1>3. IInv /\ [Next]_vars => [Service!Next]_<<settings, arrived, Pending, Answers>>
    BY NextServes
<1>4. QED
    BY <1>1, <1>2, <1>3, PTL DEF Spec, Serves, Service!Spec, Answers

-----------------------------------------------------------------------------
(* What the cache holds of an answer to question q.                        *)
InCache(q, r) ==
    settings.cache /\ q.kind = "A" /\ q.name \in PolicyName /\ r.what = "reply" /\ r.ips # {}
    => [name |-> q.name, ips |-> r.ips] \in saved

CachedInv ==
    /\ IInv
    /\ pc = "respond" => InCache(Question, resp)
    /\ \A g \in given : InCache(arrived[g.id], g.resp)

(* An answer with the addresses of a policy's domain goes to the cache     *)
(* first; every other way to an answer has none of them.                   *)
LEMMA TakeReplyCached ==
    IInv /\ TakeReply /\ pc' = "respond" => InCache(Question, resp')
<1>1. SUFFICES ASSUME IInv, TakeReply, pc' = "respond",
                      settings.cache, Question.kind = "A", Question.name \in PolicyName
               PROVE  resp'.what # "reply" \/ resp'.ips = {}
    BY DEF InCache
<1>2. IsPolicyDomain
    BY <1>1 DEF IsPolicyDomain, IInv, Ready, Forwarded, TakeReply
<1>3. PICK q \in {x \in requests : x.port = bound}, ips \in SUBSET Ip, parses \in BOOLEAN :
          LET r == [what |-> "reply", from |-> q.to, query |-> q.query,
                    ips |-> ips, parses |-> parses]
          IN CASE ~parses  -> Respond(Servfail)
               [] parses /\ ips = {} -> Respond(IF settings.deny THEN Refused ELSE r)
               [] parses /\ ips # {} ->
                     /\ resp' = r
                     /\ pc' = IF settings.cache THEN "store" ELSE "respond"
    BY <1>1, <1>2 DEF TakeReply
<1>4. CASE ~parses
  <2>1. resp' = Servfail
      BY <1>3, <1>4 DEF Respond
  <2>2. QED
      BY <2>1 DEF Servfail
<1>5. CASE parses /\ ips = {}
  <2>1. resp' = IF settings.deny THEN Refused
                ELSE [what |-> "reply", from |-> q.to, query |-> q.query,
                      ips |-> ips, parses |-> parses]
      BY <1>3, <1>5 DEF Respond
  <2>2. QED
      BY <1>5, <2>1 DEF Refused
<1>6. CASE parses /\ ips # {}
  <2>1. pc' = IF settings.cache THEN "store" ELSE "respond"
      BY <1>3, <1>6
  <2>2. QED
      BY <1>1, <2>1
<1>7. QED
    BY <1>4, <1>5, <1>6

LEMMA RespondCached ==
    CachedInv /\ [Next]_vars /\ pc' = "respond" => InCache(Question, resp)'
<1>1. SUFFICES ASSUME CachedInv, [Next]_vars, pc' = "respond" PROVE InCache(Question, resp)'
    OBVIOUS
<1>2. CASE Arrive \/ UNCHANGED vars
  <2>1. /\ pc = "respond" /\ UNCHANGED <<settings, saved, cur, resp>>
      BY <1>1, <1>2 DEF Arrive, vars, clients, locals
  <2>2. cur \in 1..Len(arrived)
      BY <1>1, <2>1 DEF CachedInv, IInv, Shapes
  <2>3. arrived'[cur] = arrived[cur]
    <3>1. arrived \in Seq(Query)
        BY <1>1 DEF CachedInv, IInv, Shapes
    <3>2. CASE UNCHANGED arrived
        BY <3>2
    <3>3. CASE Arrive
      <4>1. PICK q \in Query : arrived' = Append(arrived, q)
          BY <3>3 DEF Arrive
      <4>2. QED
          BY <2>2, <3>1, <4>1
    <3>4. QED
        BY <1>2, <3>2, <3>3 DEF vars, clients
  <2>4. QED
      BY <1>1, <2>1, <2>3 DEF CachedInv, InCache, Question
<1>3. CASE Receive
    BY <1>3 DEF Receive, Classify, Echo, Servfail, Refused, None, InCache
<1>4. CASE AskFails \/ Timeout
  <2>1. resp' \in {Refused, Servfail}
      BY <1>1, <1>4 DEF AskFails, Timeout, UpstreamFails, Respond
  <2>2. QED
      BY <2>1 DEF Refused, Servfail, InCache
<1>5. CASE TakeReply
  <2>1. UNCHANGED <<settings, arrived, cur, saved>>
      BY <1>5 DEF TakeReply, clients
  <2>2. InCache(Question, resp')
      BY <1>1, <1>5, TakeReplyCached DEF CachedInv
  <2>3. QED
      BY <2>1, <2>2 DEF InCache, Question
<1>6. CASE Store
  <2>1. /\ UNCHANGED <<arrived, cur, resp>>
        /\ [name |-> Question.name, ips |-> resp.ips] \in saved'
      BY <1>6 DEF Store, clients, locals
  <2>2. QED
      BY <2>1 DEF InCache, Question
<1>7. CASE StoreFails
    BY <1>7 DEF StoreFails, Respond, Servfail, InCache
<1>8. CASE Ask \/ Send \/ Crash \/ Restart
    BY <1>1, <1>8 DEF Ask, Send, Crash, Restart
<1>9. QED
    BY <1>1, <1>2, <1>3, <1>4, <1>5, <1>6, <1>7, <1>8 DEF Next, Proxy

LEMMA NextCached == CachedInv /\ [Next]_vars => CachedInv'
<1>1. SUFFICES ASSUME CachedInv, [Next]_vars PROVE CachedInv'
    OBVIOUS
<1>2. IInv /\ IInv'
    BY <1>1, NextInv DEF CachedInv
<1>3. /\ UNCHANGED settings /\ saved \subseteq saved'
      /\ \A n \in 1..Len(arrived) : arrived'[n] = arrived[n]
  <2>1. CASE Arrive
      BY <1>2, <2>1 DEF Arrive, IInv, Shapes
  <2>2. CASE UNCHANGED vars \/ (Next /\ ~Arrive)
      BY <1>1, <2>2 DEF vars, clients, locals, Next, Proxy, Receive, Ask, AskFails, Timeout,
         TakeReply, Store, StoreFails, Send, Restart, Crash
  <2>3. QED
      BY <1>1, <2>1, <2>2
<1>4. ASSUME NEW g \in given PROVE InCache(arrived[g.id], g.resp)'
  <2>1. arrived'[g.id] = arrived[g.id]
      BY <1>2, <1>3 DEF IInv, InOrder
  <2>2. InCache(arrived[g.id], g.resp)
      BY <1>1 DEF CachedInv
  <2>3. QED
      BY <1>3, <2>1, <2>2 DEF InCache
<1>5. \A g \in given' : InCache(arrived[g.id], g.resp)'
  <2>1. CASE Send
    <3>1. /\ pc = "respond" /\ UNCHANGED <<settings, arrived, saved>>
          /\ given' = given \cup {[id |-> cur, resp |-> resp, failures |-> failures]}
        BY <2>1 DEF Send, clients
    <3>2. InCache(arrived[cur], resp)
        BY <1>1, <3>1 DEF CachedInv, Question
    <3>3. ASSUME NEW g \in given' PROVE InCache(arrived[g.id], g.resp)
        BY <1>1, <3>1, <3>2 DEF CachedInv
    <3>4. QED
        BY <3>1, <3>3 DEF InCache
  <2>2. CASE UNCHANGED given
      BY <1>4, <2>2
  <2>3. QED
      BY <1>1, <2>1, <2>2 DEF vars, clients, locals, Next, Proxy, Receive, Ask, AskFails, Timeout,
         TakeReply, Store, StoreFails, Restart, Crash, Arrive
<1>6. QED
    BY <1>1, <1>2, <1>5, RespondCached DEF CachedInv

(* dns_proxy.rs:158-171.  A client has an address of a policy's domain     *)
(* only when the cache holds it: no answer overtakes its upsert, and a     *)
(* failed upsert answers SERVFAIL.                                         *)
THEOREM AnswersAreCached == Spec => []CachedBeforeAnswered
<1>1. Init => CachedInv
  <2>1. Init => pc = "idle" /\ given = {}
      BY DEF Init
  <2>2. QED
      BY <2>1, InitInv DEF CachedInv
<1>2. CachedInv /\ [Next]_vars => CachedInv'
    BY NextCached
<1>3. CachedInv => CachedBeforeAnswered
    BY DEF CachedInv, CachedBeforeAnswered, InCache
<1>4. QED
    BY <1>1, <1>2, <1>3, PTL DEF Spec

-----------------------------------------------------------------------------
(* The upstreams f that failed and the answer r to question q agree.       *)
Tried(f) == f = SubSeq(Upstreams, 1, Len(f))

Agree(q, f, r) ==
    /\ Tried(f)
    /\ r.what = "reply" => Len(f) < Len(Upstreams) /\ r.from = Upstreams[Len(f) + 1]
    /\ r.what \in {"servfail", "refused"} /\ q.kind # "unparsable" /\ q.name \notin PolicyName
       => Len(f) = Len(Upstreams)

OrderInv ==
    /\ IInv
    /\ Tried(failures)
    /\ pc \in {"off", "idle"} => idx = 1 /\ failures = <<>>
    /\ pc \in {"ask", "wait", "store"} => Len(failures) = idx - 1
    /\ pc = "store" => resp.from = Upstreams[idx] /\ Question.name \in PolicyName
    /\ pc = "respond" => Agree(Question, failures, resp)
    /\ \A g \in given : Agree(arrived[g.id], g.failures, g.resp)

LEMMA TriedNone == Tried(<<>>)
    BY ProxyAssumption DEF Tried

LEMMA TriedNext ==
    ASSUME NEW f, Tried(f), NEW i \in 1..Len(Upstreams), Len(f) = i - 1
    PROVE  Tried(Append(f, Upstreams[i])) /\ Len(Append(f, Upstreams[i])) = i
<1>1. f = SubSeq(Upstreams, 1, i - 1)
    BY DEF Tried
<1>2. f \in Seq(Upstream) /\ Upstreams[i] \in Upstream
    BY <1>1, ProxyAssumption DEF Upstream
<1>3. Append(f, Upstreams[i]) \in Seq(Upstream) /\ Len(Append(f, Upstreams[i])) = i
    BY <1>2
<1>4. Append(f, Upstreams[i]) = SubSeq(Upstreams, 1, i)
    BY <1>1, <1>2, <1>3, ProxyAssumption
<1>5. QED
    BY <1>3, <1>4 DEF Tried

(* The failure of an upstream makes the next one the first not tried.      *)
LEMMA UpstreamFailsOrder ==
    ASSUME OrderInv, IInv', AskFails \/ Timeout
    PROVE  OrderInv'
<1>1. /\ UpstreamFails /\ pc \in {"ask", "wait"}
      /\ UNCHANGED <<arrived, cur, given>>
    BY DEF AskFails, Timeout, clients
<1>2. /\ Len(failures) = idx - 1 /\ Tried(failures) /\ idx \in 1..Len(Upstreams)
      /\ Len(Upstreams) \in Nat
    BY <1>1, ProxyAssumption DEF OrderInv, IInv, Shapes
<1>3. Tried(failures') /\ Len(failures') = idx
    BY <1>1, <1>2, TriedNext DEF UpstreamFails
<1>4. \A g \in given' : Agree(arrived[g.id], g.failures, g.resp)'
    BY <1>1 DEF OrderInv, Agree, Tried
<1>5. CASE idx < Len(Upstreams)
    BY <1>1, <1>2, <1>3, <1>4, <1>5 DEF UpstreamFails, OrderInv, Tried
<1>6. CASE idx = Len(Upstreams)
  <2>1. pc' = "respond" /\ resp' \in {Refused, Servfail}
      BY <1>1, <1>2, <1>6 DEF UpstreamFails, Respond
  <2>2. Agree(Question, failures, resp)'
      BY <1>3, <1>6, <2>1 DEF Agree, Tried, Refused, Servfail
  <2>3. QED
      BY <1>3, <1>4, <2>1, <2>2 DEF OrderInv, Tried
<1>7. QED
    BY <1>2, <1>5, <1>6

LEMMA TakeReplyOrder == ASSUME OrderInv, IInv', TakeReply PROVE OrderInv'
<1>1. /\ pc = "wait"
      /\ UNCHANGED <<arrived, cur, idx, failures, given>>
    BY DEF TakeReply, clients
<1>2. /\ Len(failures) = idx - 1 /\ Tried(failures) /\ idx \in 1..Len(Upstreams)
      /\ Len(Upstreams) \in Nat
    BY <1>1, ProxyAssumption DEF OrderInv, IInv, Shapes
<1>3. PICK q \in {x \in requests : x.port = bound}, ips \in SUBSET Ip, parses \in BOOLEAN :
          LET r == [what |-> "reply", from |-> q.to, query |-> q.query,
                    ips |-> ips, parses |-> parses]
          IN IF IsPolicyDomain /\ Question.kind = "A"
             THEN CASE ~parses  -> Respond(Servfail)
                    [] parses /\ ips = {} -> Respond(IF settings.deny THEN Refused ELSE r)
                    [] parses /\ ips # {} ->
                          /\ resp' = r
                          /\ pc' = IF settings.cache THEN "store" ELSE "respond"
             ELSE Respond(r)
    BY DEF TakeReply
<1> DEFINE r == [what |-> "reply", from |-> q.to, query |-> q.query,
                 ips |-> ips, parses |-> parses]
<1>4. r.what = "reply" /\ r.from = Upstreams[idx]
    BY <1>1 DEF OrderInv, IInv, OwnSocket
<1>5. \/ pc' = "respond" /\ resp' = r
      \/ pc' = "respond" /\ resp' \in {Servfail, Refused} /\ IsPolicyDomain
      \/ pc' = "store" /\ resp' = r /\ IsPolicyDomain
  <2>1. CASE ~(IsPolicyDomain /\ Question.kind = "A")
      BY <1>3, <2>1 DEF Respond
  <2>2. CASE IsPolicyDomain /\ Question.kind = "A" /\ ~parses
      BY <1>3, <2>2 DEF Respond
  <2>3. CASE IsPolicyDomain /\ Question.kind = "A" /\ parses /\ ips = {}
    <3>1. pc' = "respond" /\ resp' = IF settings.deny THEN Refused ELSE r
        BY <1>3, <2>3 DEF Respond
    <3>2. QED
        BY <2>3, <3>1
  <2>4. CASE IsPolicyDomain /\ Question.kind = "A" /\ parses /\ ips # {}
    <3>1. resp' = r /\ pc' = IF settings.cache THEN "store" ELSE "respond"
        BY <1>3, <2>4
    <3>2. QED
        BY <2>4, <3>1
  <2>5. QED
      BY <2>1, <2>2, <2>3, <2>4
<1> HIDE DEF r
<1>6. \A g \in given' : Agree(arrived[g.id], g.failures, g.resp)'
    BY <1>1 DEF OrderInv, Agree, Tried
<1>7. pc' = "respond" => Agree(Question, failures, resp)'
    BY <1>1, <1>2, <1>4, <1>5 DEF Agree, Tried, Servfail, Refused, IsPolicyDomain, Question
<1>8. pc' = "store" => resp'.from = Upstreams[idx] /\ Question.name \in PolicyName
    BY <1>4, <1>5 DEF IsPolicyDomain
<1>9. QED
    BY <1>1, <1>2, <1>5, <1>6, <1>7, <1>8 DEF OrderInv, Tried, Question

LEMMA SendOrder == ASSUME OrderInv, IInv', Send PROVE OrderInv'
<1>1. /\ pc = "respond" /\ pc' = "idle" /\ idx' = 1 /\ failures' = <<>>
      /\ given' = given \cup {[id |-> cur, resp |-> resp, failures |-> failures]}
      /\ UNCHANGED arrived
    BY DEF Send, clients
<1>2. Agree(arrived[cur], failures, resp)
    BY <1>1 DEF OrderInv, Question
<1>3. ASSUME NEW g \in given' PROVE Agree(arrived[g.id], g.failures, g.resp)
    BY <1>1, <1>2 DEF OrderInv
<1>4. \A g \in given' : Agree(arrived[g.id], g.failures, g.resp)'
    BY <1>1, <1>3 DEF Agree, Tried
<1>5. QED
    BY <1>1, <1>4, TriedNone DEF OrderInv, Tried

LEMMA NextOrder == OrderInv /\ [Next]_vars => OrderInv'
<1>1. SUFFICES ASSUME OrderInv, [Next]_vars PROVE OrderInv'
    OBVIOUS
<1>2. IInv /\ IInv'
    BY <1>1, NextInv DEF OrderInv
<1>3. ASSUME UNCHANGED <<given, failures>>,
             \A n \in 1..Len(arrived) : arrived'[n] = arrived[n]
      PROVE  \A g \in given' : Agree(arrived[g.id], g.failures, g.resp)'
  <2>1. TAKE g \in given'
  <2>2. arrived'[g.id] = arrived[g.id]
      BY <1>2, <1>3 DEF IInv, InOrder
  <2>3. QED
      BY <1>1, <1>3, <2>2 DEF OrderInv, Agree, Tried
<1>4. CASE UNCHANGED vars \/ Arrive
  <2>1. UNCHANGED <<pc, cur, idx, failures, resp, given>>
      BY <1>4 DEF Arrive, vars, locals
  <2>2. \A n \in 1..Len(arrived) : arrived'[n] = arrived[n]
    <3>1. CASE Arrive
        BY <1>2, <3>1 DEF Arrive, IInv, Shapes
    <3>2. CASE UNCHANGED vars
        BY <3>2 DEF vars, clients
    <3>3. QED
        BY <1>4, <3>1, <3>2
  <2>3. cur # 0 => Question' = Question
    <3>1. cur \in 0..Len(arrived) /\ Len(arrived) \in Nat
        BY <1>2 DEF IInv, Shapes
    <3>2. QED
        BY <2>1, <2>2, <3>1 DEF Question
  <2>4. pc' = "respond" => Agree(Question, failures, resp)'
      BY <1>1, <1>2, <2>1, <2>3 DEF OrderInv, IInv, Shapes, Agree, Tried
  <2>5. pc \in {"store", "respond"} => cur # 0
      BY <1>2 DEF IInv, Shapes
  <2>6. QED
      BY <1>1, <1>2, <1>3, <2>1, <2>2, <2>3, <2>4, <2>5 DEF OrderInv, Tried
<1>5. CASE Receive
  <2>1. /\ pc = "idle" /\ idx = 1 /\ failures = <<>>
        /\ UNCHANGED <<settings, arrived, idx, failures, given>>
        /\ resp' = Classify(Question') /\ pc' = IF resp' = None THEN "ask" ELSE "respond"
      BY <1>1, <1>5 DEF Receive, OrderInv, clients, Question
  <2>2. Agree(Question, failures, resp)'
    <3>1. /\ resp'.what # "reply"
          /\ resp'.what \in {"servfail", "refused"} =>
                Question'.kind = "unparsable" \/ Question'.name \in PolicyName
        BY <2>1 DEF Classify, Echo, Servfail, Refused, None
    <3>2. Tried(failures)'
        BY <2>1, TriedNone DEF Tried
    <3>3. QED
        BY <3>1, <3>2 DEF Agree
  <2>3. QED
      BY <1>2, <1>3, <2>1, <2>2, TriedNone DEF OrderInv, Tried
<1>6. CASE Ask \/ Restart
  <2>1. /\ UNCHANGED <<arrived, cur, idx, failures, resp, given>>
        /\ (pc = "ask" /\ pc' = "wait") \/ (pc = "off" /\ pc' = "idle")
      BY <1>6 DEF Ask, Restart, clients, locals
  <2>2. QED
      BY <1>1, <1>2, <1>3, <2>1 DEF OrderInv, Tried
<1>7. CASE Store \/ StoreFails
  <2>1. /\ UNCHANGED <<arrived, cur, idx, failures, given>>
        /\ pc = "store" /\ pc' = "respond" /\ resp' \in {resp, Servfail}
      BY <1>7 DEF Store, StoreFails, Respond, clients, locals
  <2>2. /\ Len(failures) = idx - 1 /\ idx \in 1..Len(Upstreams) /\ Len(Upstreams) \in Nat
        /\ resp.what = "reply" /\ resp.from = Upstreams[idx]
        /\ Question.name \in PolicyName /\ Tried(failures)
      BY <1>1, <1>2, <2>1, ProxyAssumption DEF OrderInv, IInv, Shapes, Ready
  <2>3. Agree(Question, failures, resp)'
      BY <2>1, <2>2 DEF Agree, Tried, Servfail, Question
  <2>4. QED
      BY <1>1, <1>2, <1>3, <2>1, <2>2, <2>3 DEF OrderInv, Tried
<1>8. CASE Crash
  <2>1. /\ UNCHANGED <<arrived, given>>
        /\ pc' = "off" /\ idx' = 1 /\ failures' = <<>>
      BY <1>8 DEF Crash, clients
  <2>2. \A g \in given' : Agree(arrived[g.id], g.failures, g.resp)'
      BY <1>1, <2>1 DEF OrderInv, Agree, Tried
  <2>3. QED
      BY <1>2, <2>1, <2>2, TriedNone DEF OrderInv, Tried
<1>9. QED
    BY <1>1, <1>2, <1>4, <1>5, <1>6, <1>7, <1>8, UpstreamFailsOrder, TakeReplyOrder, SendOrder
    DEF Next, Proxy

(* README.md:373-378, dns_proxy.rs:176-210.  The reply a client gets is    *)
(* that of the first upstream that did not fail, and an error for a name   *)
(* without a policy says that every upstream failed for this datagram.     *)
THEOREM UpstreamsInOrder == Spec => []FailoverInOrder
<1>1. Init => OrderInv
  <2>1. Init => pc = "idle" /\ idx = 1 /\ failures = <<>> /\ given = {}
      BY DEF Init
  <2>2. QED
      BY <2>1, InitInv, TriedNone DEF OrderInv, Tried
<1>2. OrderInv /\ [Next]_vars => OrderInv'
    BY NextOrder
<1>3. OrderInv => FailoverInOrder
    BY DEF OrderInv, FailoverInOrder, Agree, Tried
<1>4. QED
    BY <1>1, <1>2, <1>3, PTL DEF Spec

-----------------------------------------------------------------------------
(* The types, with their bounds: each datagram binds at most one socket    *)
(* for each upstream.                                                      *)

Cap(n) == n * Len(Upstreams)

PortInv ==
    /\ bound <= Cap(Len(arrived))
    /\ \A i \in DOMAIN inbox : bound <= Cap(inbox[i] - 1)
    /\ pc = "ask" => bound + 1 <= Cap(cur - 1) + idx
    /\ pc = "wait" => bound <= Cap(cur - 1) + idx

TypeInv == OrderInv /\ TypeOK /\ PortInv

LEMMA CapFacts ==
    /\ \A n \in Nat : Cap(n) \in Nat /\ Cap(n + 1) = Cap(n) + Len(Upstreams)
    /\ \A m, n \in Nat : m <= n => Cap(m) <= Cap(n)
<1>1. Len(Upstreams) \in Nat
    BY ProxyAssumption
<1>2. ASSUME NEW n \in Nat, NEW k \in Nat PROVE n * k \in Nat /\ (n + 1) * k = n * k + k
    OBVIOUS
<1>3. ASSUME NEW m \in Nat, NEW n \in Nat, m <= n, NEW k \in Nat PROVE m * k <= n * k
  <2>1. PICK d \in Nat : n = m + d
      BY <1>3
  <2>2. n * k = m * k + d * k /\ d * k \in Nat /\ m * k \in Nat
      BY <2>1
  <2>3. QED
      BY <2>2
<1>4. QED
    BY <1>1, <1>2, <1>3 DEF Cap

(* What follows from the invariants for the datagram in hand.              *)
LEMMA TypeFacts ==
    ASSUME TypeInv
    PROVE  /\ Len(Upstreams) \in Nat \ {0} /\ Len(arrived) \in 0..MaxQueries /\ bound \in Nat
           /\ idx \in 1..Len(Upstreams) /\ MaxQueries \in Nat /\ cur \in 0..Len(arrived)
           /\ pc \notin {"off", "idle"} => cur >= 1
           /\ failures \in Seq(Upstream) /\ resp \in Response /\ inbox \in Seq(Nat)
           /\ \A i \in DOMAIN inbox : inbox[i] \in 1..Len(arrived) /\ inbox[i] > cur
           /\ Port = 1..Cap(MaxQueries)
<1>1. Len(Upstreams) \in Nat \ {0} /\ MaxQueries \in Nat /\ Port = 1..Cap(MaxQueries)
    BY ProxyAssumption DEF Port, Cap
<1>2. TypeOK /\ Shapes /\ InOrder
    BY DEF TypeInv, OrderInv, IInv
<1>3. /\ cur \in 0..Len(arrived) /\ (pc \notin {"off", "idle"} => cur >= 1)
      /\ Len(arrived) \in 0..MaxQueries
    BY <1>1, <1>2 DEF TypeOK
<1>4. /\ idx \in 1..Len(Upstreams) /\ failures \in Seq(Upstream) /\ resp \in Response
      /\ bound \in Nat /\ inbox \in Seq(Nat)
    BY <1>2 DEF Shapes, TypeOK
<1>5. \A i \in DOMAIN inbox : inbox[i] \in 1..Len(arrived) /\ inbox[i] > cur
    BY <1>2 DEF InOrder
<1>6. QED
    BY <1>1, <1>3, <1>4, <1>5

LEMMA PortsFit == ASSUME TypeInv PROVE bound <= Cap(MaxQueries)
<1>1. Cap(Len(arrived)) <= Cap(MaxQueries) /\ Cap(Len(arrived)) \in Nat /\ Cap(MaxQueries) \in Nat
  <2>1. Len(arrived) \in Nat /\ MaxQueries \in Nat /\ Len(arrived) <= MaxQueries
      BY TypeFacts
  <2>2. QED
      BY <2>1, CapFacts
<1>2. bound <= Cap(Len(arrived)) /\ bound \in Nat
    BY TypeFacts DEF TypeInv, PortInv
<1>3. QED
    BY <1>1, <1>2

(* The steps that ask no upstream and take no datagram.                    *)
LEMMA QuietPorts ==
    ASSUME TypeInv, UNCHANGED <<arrived, inbox, bound>>, pc' \notin {"ask", "wait"}
    PROVE  PortInv'
BY DEF TypeInv, PortInv

LEMMA ArriveType == ASSUME TypeInv, OrderInv', Arrive PROVE TypeOK' /\ PortInv'
<1>1. PICK q \in Query : arrived' = Append(arrived, q)
    BY DEF Arrive
<1>2. /\ arrived \in Seq(Query) /\ Len(arrived) < MaxQueries /\ Len(inbox) <= MaxQueue
      /\ UNCHANGED <<settings, requests, bound, pc, cur, idx, failures, resp, saved, given, crashes>>
      /\ inbox \in Seq(Id) /\ MaxQueue \in Nat
    BY ProxyAssumption DEF Arrive, locals, TypeInv, TypeOK
<1>3. arrived' \in Seq(Query) /\ Len(arrived') = Len(arrived) + 1
    BY <1>1, <1>2
<1>4. Len(arrived) + 1 \in Id
    BY <1>2, TypeFacts DEF Id
<1>5. inbox' \in Seq(Id) /\ Len(inbox') <= MaxQueue
  <2>1. CASE pc # "off" /\ Len(inbox) < MaxQueue
    <3>1. inbox' = Append(inbox, Len(arrived) + 1)
        BY <2>1 DEF Arrive
    <3>2. QED
        BY <1>2, <1>4, <2>1, <3>1
  <2>2. CASE ~(pc # "off" /\ Len(inbox) < MaxQueue)
      BY <1>2, <2>2 DEF Arrive
  <2>3. QED
      BY <2>1, <2>2
<1>6. TypeOK'
  <2>1. cur \in 0..Len(arrived') /\ Len(arrived') <= MaxQueries
      BY <1>2, <1>3, TypeFacts
  <2>2. TypeOK
      BY DEF TypeInv
  <2>3. QED
      BY <1>2, <1>3, <1>5, <2>1, <2>2 DEF TypeOK
<1>7. PortInv'
  <2>1. bound <= Cap(Len(arrived)) /\ \A i \in DOMAIN inbox : bound <= Cap(inbox[i] - 1)
      BY DEF TypeInv, PortInv
  <2>2. bound <= Cap(Len(arrived'))
    <3>1. Cap(Len(arrived)) \in Nat /\ Cap(Len(arrived) + 1) = Cap(Len(arrived)) + Len(Upstreams)
        BY TypeFacts, CapFacts
    <3>2. QED
        BY <1>3, <2>1, <3>1, TypeFacts
  <2>3. ASSUME NEW i \in DOMAIN inbox' PROVE bound <= Cap(inbox'[i] - 1)
    <3>1. CASE inbox' = inbox
        BY <2>1, <2>3, <3>1
    <3>2. CASE inbox' = Append(inbox, Len(arrived) + 1)
      <4>1. CASE i \in DOMAIN inbox
          BY <1>2, <2>1, <3>2, <4>1
      <4>2. CASE i \notin DOMAIN inbox
        <5>1. inbox'[i] = Len(arrived) + 1
            BY <1>2, <2>3, <3>2, <4>2
        <5>2. inbox'[i] - 1 = Len(arrived)
            BY <5>1, TypeFacts
        <5>3. QED
            BY <2>1, <5>2
      <4>3. QED
          BY <4>1, <4>2
    <3>3. QED
        BY <3>1, <3>2 DEF Arrive
  <2>4. QED
      BY <1>2, <2>2, <2>3 DEF TypeInv, PortInv
<1>8. QED
    BY <1>6, <1>7

LEMMA ReceiveType == ASSUME TypeInv, OrderInv', Receive PROVE TypeOK' /\ PortInv'
<1>1. /\ pc = "idle" /\ inbox # <<>> /\ cur' = Head(inbox) /\ inbox' = Tail(inbox)
      /\ resp' = Classify(arrived[Head(inbox)]) /\ pc' \in {"ask", "respond"}
      /\ UNCHANGED <<settings, arrived, requests, bound, idx, failures, saved, given, crashes>>
    BY DEF Receive, clients
<1>2. /\ inbox \in Seq(Id) /\ Len(inbox) <= MaxQueue /\ MaxQueue \in Nat
      /\ idx = 1
    BY <1>1, ProxyAssumption DEF TypeInv, TypeOK, OrderInv
<1>3. inbox' \in Seq(Id) /\ Len(inbox') <= MaxQueue
    BY <1>1, <1>2
<1>4. resp' \in Response
    BY <1>1 DEF Classify, Response
<1>5. cur' = inbox[1] /\ 1 \in DOMAIN inbox
    BY <1>1, <1>2
<1>6. cur' \in 1..Len(arrived) /\ cur' - 1 \in Nat
  <2>1. inbox[1] \in 1..Len(arrived) /\ Len(arrived) \in Nat
      BY <1>5, TypeFacts
  <2>2. inbox[1] \in Nat /\ inbox[1] >= 1
      BY <2>1
  <2>3. inbox[1] - 1 \in Nat
      BY <2>2
  <2>4. QED
      BY <1>5, <2>1, <2>3
<1>7. TypeOK'
  <2>1. TypeOK /\ cur' \in 0..Len(arrived) /\ (cur' = 0 <=> pc' \in {"off", "idle"})
      BY <1>1, <1>6 DEF TypeInv
  <2>2. QED
      BY <1>1, <1>3, <1>4, <2>1 DEF TypeOK
<1>8. bound <= Cap(cur' - 1)
    BY <1>5 DEF TypeInv, PortInv
<1>9. \A i \in DOMAIN inbox' : bound <= Cap(inbox'[i] - 1)
  <2>1. \A i \in DOMAIN inbox' : i + 1 \in DOMAIN inbox /\ inbox'[i] = inbox[i + 1]
      BY <1>1, <1>2
  <2>2. QED
      BY <2>1 DEF TypeInv, PortInv
<1>10. Cap(cur' - 1) \in Nat
    BY <1>6, CapFacts
<1>11. PortInv'
  <2>1. bound + 1 <= Cap(cur' - 1) + 1
      BY <1>8, <1>10, TypeFacts
  <2>2. QED
      BY <1>1, <1>2, <1>9, <2>1 DEF TypeInv, PortInv
<1>12. QED
    BY <1>7, <1>11

LEMMA AskType == ASSUME TypeInv, OrderInv', Ask PROVE TypeOK' /\ PortInv'
<1>1. /\ pc = "ask" /\ pc' = "wait" /\ bound' = bound + 1
      /\ requests' = requests \cup {[to |-> Upstreams[idx], port |-> bound', query |-> Question]}
      /\ UNCHANGED <<settings, arrived, inbox, cur, idx, failures, resp, saved, given, crashes>>
    BY DEF Ask, clients, locals
<1>2. cur \in 1..Len(arrived) /\ Question \in Query
    BY <1>1, TypeFacts, QueryFields DEF TypeInv, OrderInv, IInv
<1>3. bound' <= Cap(cur - 1) + idx
    BY <1>1 DEF TypeInv, PortInv
<1>4. bound' <= Cap(cur)
  <2>1. cur - 1 \in Nat /\ (cur - 1) + 1 = cur
      BY <1>2, TypeFacts
  <2>2. Cap(cur) = Cap(cur - 1) + Len(Upstreams) /\ Cap(cur - 1) \in Nat
      BY <2>1, CapFacts
  <2>3. bound' \in Nat /\ idx \in Nat /\ Len(Upstreams) \in Nat /\ idx <= Len(Upstreams)
      BY <1>1, TypeFacts
  <2>4. QED
      BY <1>3, <2>2, <2>3
<1>5. ASSUME NEW n \in Nat, cur <= n PROVE bound' <= Cap(n)
  <2>1. cur \in Nat
      BY <1>2, TypeFacts
  <2>2. Cap(cur) <= Cap(n) /\ Cap(cur) \in Nat /\ Cap(n) \in Nat
      BY <1>5, <2>1, CapFacts
  <2>3. QED
      BY <1>1, <1>4, <2>2, TypeFacts
<1>6. bound' \in Port
  <2>1. bound' <= Cap(MaxQueries) /\ Cap(MaxQueries) \in Nat
    <3>1. MaxQueries \in Nat /\ cur <= MaxQueries
        BY <1>2, TypeFacts
    <3>2. QED
        BY <1>5, <3>1, CapFacts
  <2>2. QED
      BY <1>1, <2>1, TypeFacts
<1>7. Upstreams[idx] \in Upstream
    BY TypeFacts DEF Upstream
<1>8. requests' \subseteq [to : Upstream, port : Port, query : Query]
    BY <1>1, <1>2, <1>6, <1>7 DEF TypeInv, TypeOK
<1>9. TypeOK'
    BY <1>1, <1>2, <1>6, <1>8 DEF TypeInv, TypeOK
<1>10. \A i \in DOMAIN inbox : bound' <= Cap(inbox[i] - 1)
  <2>1. ASSUME NEW i \in DOMAIN inbox PROVE inbox[i] - 1 \in Nat /\ cur <= inbox[i] - 1
    <3>1. inbox[i] \in 1..Len(arrived) /\ inbox[i] > cur /\ cur \in Nat
        BY <1>2, TypeFacts
    <3>2. QED
        BY <3>1
  <2>2. QED
      BY <1>5, <2>1
<1>11. bound' <= Cap(Len(arrived))
    BY <1>2, <1>5, TypeFacts
<1>12. QED
    BY <1>1, <1>3, <1>9, <1>10, <1>11 DEF PortInv

LEMMA FailType == ASSUME TypeInv, OrderInv', AskFails \/ Timeout PROVE TypeOK' /\ PortInv'
<1>1. /\ UpstreamFails /\ pc \in {"ask", "wait"}
      /\ UNCHANGED <<settings, arrived, inbox, requests, bound, cur, saved, given, crashes>>
    BY DEF AskFails, Timeout, clients
<1>2. Len(failures) = idx - 1 /\ Upstreams[idx] \in Upstream /\ cur \in 1..Len(arrived)
    BY <1>1, TypeFacts DEF TypeInv, OrderInv, Upstream
<1>3. failures' \in Seq(Upstream) /\ Len(failures') = idx
    BY <1>1, <1>2, TypeFacts DEF UpstreamFails
<1>4. CASE idx < Len(Upstreams)
  <2>1. idx' = idx + 1 /\ pc' = "ask" /\ resp' = resp
      BY <1>1, <1>4, TypeFacts DEF UpstreamFails
  <2>2. idx' \in 1..Len(Upstreams)
      BY <1>4, <2>1, TypeFacts
  <2>3. TypeOK'
    <3>1. TypeOK /\ idx' \in DOMAIN Upstreams
        BY <2>2, ProxyAssumption DEF TypeInv
    <3>2. Len(failures') <= Len(Upstreams) /\ (cur = 0 <=> pc' \in {"off", "idle"})
        BY <1>2, <1>3, <1>4, <2>1, TypeFacts
    <3>3. QED
        BY <1>1, <1>3, <2>1, <3>1, <3>2 DEF TypeOK
  <2>4. Cap(cur - 1) \in Nat
    <3>1. cur - 1 \in Nat
        BY <1>2, TypeFacts
    <3>2. QED
        BY <3>1, CapFacts
  <2>5. bound + 1 <= Cap(cur - 1) + (idx + 1)
      BY <1>1, <2>4, TypeFacts DEF TypeInv, PortInv
  <2>6. PortInv'
      BY <1>1, <2>1, <2>5 DEF TypeInv, PortInv
  <2>7. QED
      BY <2>3, <2>6
<1>5. CASE idx = Len(Upstreams)
  <2>1. idx' = idx /\ pc' = "respond" /\ resp' \in {Refused, Servfail}
      BY <1>1, <1>5, TypeFacts DEF UpstreamFails, Respond
  <2>2. TypeOK'
      BY <1>1, <1>2, <1>3, <1>5, <2>1, TypeFacts DEF TypeInv, TypeOK, Response
  <2>3. QED
      BY <1>1, <2>1, <2>2, QuietPorts
<1>6. QED
    BY <1>4, <1>5, TypeFacts

LEMMA TakeReplyType == ASSUME TypeInv, OrderInv', TakeReply PROVE TypeOK' /\ PortInv'
<1>1. /\ pc = "wait"
      /\ UNCHANGED <<settings, arrived, inbox, requests, bound, cur, idx, failures, saved, given, crashes>>
    BY DEF TakeReply, clients
<1>2. PICK q \in {x \in requests : x.port = bound}, ips \in SUBSET Ip, parses \in BOOLEAN :
          LET r == [what |-> "reply", from |-> q.to, query |-> q.query,
                    ips |-> ips, parses |-> parses]
          IN IF IsPolicyDomain /\ Question.kind = "A"
             THEN CASE ~parses  -> Respond(Servfail)
                    [] parses /\ ips = {} -> Respond(IF settings.deny THEN Refused ELSE r)
                    [] parses /\ ips # {} ->
                          /\ resp' = r
                          /\ pc' = IF settings.cache THEN "store" ELSE "respond"
             ELSE Respond(r)
    BY DEF TakeReply
<1> DEFINE r == [what |-> "reply", from |-> q.to, query |-> q.query,
                 ips |-> ips, parses |-> parses]
<1>3. r \in Reply
    BY DEF TypeInv, TypeOK, Reply
<1>4. pc' \in {"respond", "store"} /\ resp' \in {r, Servfail, Refused}
  <2>1. CASE ~(IsPolicyDomain /\ Question.kind = "A")
      BY <1>2, <2>1 DEF Respond
  <2>2. CASE IsPolicyDomain /\ Question.kind = "A" /\ ~parses
      BY <1>2, <2>2 DEF Respond
  <2>3. CASE IsPolicyDomain /\ Question.kind = "A" /\ parses /\ ips = {}
    <3>1. pc' = "respond" /\ resp' = IF settings.deny THEN Refused ELSE r
        BY <1>2, <2>3 DEF Respond
    <3>2. QED
        BY <3>1
  <2>4. CASE IsPolicyDomain /\ Question.kind = "A" /\ parses /\ ips # {}
    <3>1. resp' = r /\ pc' = IF settings.cache THEN "store" ELSE "respond"
        BY <1>2, <2>4
    <3>2. QED
        BY <3>1
  <2>5. QED
      BY <2>1, <2>2, <2>3, <2>4
<1> HIDE DEF r
<1>5. resp' \in Response
    BY <1>3, <1>4 DEF Response
<1>6. cur >= 1
    BY <1>1, TypeFacts
<1>7. TypeOK'
    BY <1>1, <1>4, <1>5, <1>6, TypeFacts DEF TypeInv, TypeOK
<1>8. QED
    BY <1>1, <1>4, <1>7, QuietPorts

LEMMA StoreType == ASSUME TypeInv, OrderInv', Store \/ StoreFails PROVE TypeOK' /\ PortInv'
<1>1. /\ pc = "store" /\ pc' = "respond" /\ resp' \in {resp, Servfail}
      /\ saved' \in {saved, saved \cup {[name |-> Question.name, ips |-> resp.ips]}}
      /\ UNCHANGED <<settings, arrived, inbox, requests, bound, cur, idx, failures, given, crashes>>
    BY DEF Store, StoreFails, Respond, clients, locals
<1>2. resp \in Reply /\ Question.name \in PolicyName
  <2>1. resp.what = "reply" /\ Question.name \in PolicyName
      BY <1>1 DEF TypeInv, OrderInv, IInv, Ready
  <2>2. QED
      BY <2>1, TypeFacts DEF Response, None, Echo, Servfail, Refused
<1>3. saved' \subseteq [name : PolicyName, ips : SUBSET Ip]
    BY <1>1, <1>2 DEF TypeInv, TypeOK, Reply
<1>4. cur >= 1 /\ resp' \in Response
    BY <1>1, TypeFacts DEF Response
<1>5. TypeOK'
    BY <1>1, <1>3, <1>4, TypeFacts DEF TypeInv, TypeOK
<1>6. QED
    BY <1>1, <1>5, QuietPorts

LEMMA SendType == ASSUME TypeInv, OrderInv', Send PROVE TypeOK' /\ PortInv'
<1>1. /\ pc = "respond" /\ pc' = "idle" /\ cur' = 0 /\ idx' = 1 /\ failures' = <<>> /\ resp' = None
      /\ given' = given \cup {[id |-> cur, resp |-> resp, failures |-> failures]}
      /\ UNCHANGED <<settings, arrived, inbox, requests, bound, saved, crashes>>
    BY DEF Send, clients
<1>2. cur \in Id
    BY <1>1, TypeFacts DEF Id
<1>3. given' \subseteq [id : Id, resp : Response, failures : Seq(Upstream)]
    BY <1>1, <1>2, TypeFacts DEF TypeInv, TypeOK
<1>4. TypeOK'
    BY <1>1, <1>3, TypeFacts DEF TypeInv, TypeOK, Response
<1>5. QED
    BY <1>1, <1>4, QuietPorts

LEMMA CrashType == ASSUME TypeInv, OrderInv', Crash \/ Restart PROVE TypeOK' /\ PortInv'
<1>1. CASE Restart
  <2>1. pc = "off" /\ pc' = "idle" /\ UNCHANGED <<clients, inbox, requests, bound, locals, saved, given, crashes>>
      BY <1>1 DEF Restart
  <2>2. QED
      BY <2>1, QuietPorts DEF clients, locals, TypeInv, TypeOK
<1>2. CASE Crash
  <2>1. /\ pc' = "off" /\ inbox' = <<>> /\ cur' = 0 /\ idx' = 1 /\ failures' = <<>> /\ resp' = None
        /\ crashes' = crashes + 1 /\ crashes < MaxCrashes
        /\ UNCHANGED <<settings, arrived, requests, bound, saved, given>>
      BY <1>2 DEF Crash, clients
  <2>2. TypeOK'
      BY <2>1, TypeFacts, ProxyAssumption DEF TypeInv, TypeOK, Response
  <2>3. PortInv'
      BY <2>1 DEF TypeInv, PortInv
  <2>4. QED
      BY <2>2, <2>3
<1>3. QED
    BY <1>1, <1>2

LEMMA InitType == Init => TypeInv
<1>1. SUFFICES ASSUME Init PROVE TypeInv
    OBVIOUS
<1>2. OrderInv
  <2>1. pc = "idle" /\ idx = 1 /\ failures = <<>> /\ given = {}
      BY <1>1 DEF Init
  <2>2. QED
      BY <1>1, <2>1, InitInv, TriedNone DEF OrderInv, Tried
<1>3. TypeOK
    BY <1>1, ProxyAssumption DEF Init, TypeOK, Response
<1>4. PortInv
    BY <1>1, CapFacts DEF Init, PortInv
<1>5. QED
    BY <1>2, <1>3, <1>4 DEF TypeInv

LEMMA NextType == TypeInv /\ [Next]_vars => TypeInv'
<1>1. SUFFICES ASSUME TypeInv, [Next]_vars PROVE TypeInv'
    OBVIOUS
<1>2. OrderInv'
    BY <1>1, NextOrder DEF TypeInv
<1>3. CASE UNCHANGED vars
    BY <1>1, <1>2, <1>3 DEF vars, clients, locals, TypeInv, TypeOK, PortInv
<1>4. QED
    BY <1>1, <1>2, <1>3, ArriveType, ReceiveType, AskType, FailType, TakeReplyType, StoreType,
       SendType, CrashType
    DEF Next, Proxy, TypeInv

(* The proxy has a datagram in hand exactly while it handles one, holds at *)
(* most one failure of each upstream, and binds at most one socket for     *)
(* each datagram and upstream (dns_proxy.rs:57-76, 176-210).               *)
THEOREM ProxyTypes == Spec => []TypeOK
<1>1. TypeInv => TypeOK
    BY DEF TypeInv
<1>2. QED
    BY <1>1, InitType, NextType, PTL DEF Spec

-----------------------------------------------------------------------------
(* Every step of the proxy brings all datagrams in line nearer to their    *)
(* end.  A proxy that is off has none in line.                             *)
TurnInv == IInv /\ (pc = "off" => inbox = <<>>)

LEMMA NextTurn == TurnInv /\ [Next]_vars => TurnInv'
<1>1. SUFFICES ASSUME TurnInv, [Next]_vars PROVE TurnInv'
    OBVIOUS
<1>2. IInv'
    BY <1>1, NextInv DEF TurnInv
<1>3. CASE UNCHANGED vars
    BY <1>1, <1>2, <1>3 DEF vars, TurnInv
<1>4. CASE Arrive \/ Crash
    BY <1>1, <1>2, <1>4 DEF Arrive, Crash, TurnInv
<1>5. CASE Proxy
  <2>1. pc' # "off"
      BY <1>5 DEF Proxy, Receive, Ask, AskFails, Timeout, UpstreamFails, TakeReply, Store,
         StoreFails, Send, Restart, Respond
  <2>2. QED
      BY <1>2, <2>1 DEF TurnInv
<1>6. QED
    BY <1>1, <1>3, <1>4, <1>5 DEF Next

LEMMA InitTurn == Init => TurnInv
BY InitInv DEF Init, TurnInv

(* Steps left, by what the proxy does next.                                *)
StepsOK ==
    /\ Len(Upstreams) \in Nat /\ idx \in Nat /\ 1 <= idx /\ idx <= Len(Upstreams)
    /\ MostSteps \in Nat /\ StepsLeft \in Nat /\ StepsLeft < MostSteps
    /\ pc = "ask" => StepsLeft = 2 * (Len(Upstreams) - idx) + 4
    /\ pc = "wait" => StepsLeft = 2 * (Len(Upstreams) - idx) + 3
    /\ pc = "store" => StepsLeft = 2
    /\ pc = "respond" => StepsLeft = 1
    /\ pc \in {"off", "idle"} => StepsLeft = 0

LEMMA StepsFacts == Shapes => StepsOK
<1>1. SUFFICES ASSUME Shapes PROVE StepsOK
    OBVIOUS
<1> DEFINE n == Len(Upstreams)
<1>2. n \in Nat /\ idx \in Nat /\ 1 <= idx /\ idx <= n
    BY <1>1, ProxyAssumption DEF Shapes
<1>3. MostSteps = 2 * n + 3
    BY DEF MostSteps
<1>4. /\ pc = "ask" => StepsLeft = 2 * (n - idx) + 4
      /\ pc = "wait" => StepsLeft = 2 * (n - idx) + 3
      /\ pc = "store" => StepsLeft = 2
      /\ pc = "respond" => StepsLeft = 1
      /\ pc \in {"off", "idle"} => StepsLeft = 0
    BY DEF StepsLeft
<1>5. pc \in {"off", "idle", "ask", "wait", "store", "respond"}
    BY <1>1 DEF Shapes
<1> HIDE DEF n
<1>6. MostSteps \in Nat /\ StepsLeft \in Nat /\ StepsLeft < MostSteps
    BY <1>2, <1>3, <1>4, <1>5
<1>7. QED
    BY <1>2, <1>4, <1>6 DEF StepsOK, n

LEMMA StepsNext == Shapes' => StepsOK'
BY StepsFacts, PTL

(* The line is in order: no datagram is in it twice.                       *)
LEMMA LineOnce ==
    ASSUME IInv, NEW i \in 0..Len(inbox), NEW j \in 0..Len(inbox),
           InLine(i) # 0, InLine(i) = InLine(j)
    PROVE  i = j
<1>1. inbox \in Seq(Nat) /\ cur \in Nat
    BY DEF IInv, Shapes
<1>2. \A k \in 1..Len(inbox) : InLine(k) = inbox[k] /\ inbox[k] \in Nat /\ inbox[k] > cur
    BY <1>1 DEF IInv, InOrder, InLine
<1>3. \A k, l \in 1..Len(inbox) : k < l => inbox[k] < inbox[l]
  <2>1. DOMAIN inbox = 1..Len(inbox)
      BY <1>1
  <2>2. QED
      BY <2>1 DEF IInv, InOrder
<1>4. InLine(0) = cur
    BY DEF InLine
<1>5. CASE i = 0 \/ j = 0
    BY <1>1, <1>2, <1>4, <1>5
<1>6. CASE i \in 1..Len(inbox) /\ j \in 1..Len(inbox)
    BY <1>1, <1>2, <1>3, <1>6
<1>7. QED
    BY <1>1, <1>5, <1>6

LEMMA Sums == \A m, a, b \in Nat : a < b => m + a < m + b
OBVIOUS

(* A step while a datagram is in hand: the line is as it was, but for that *)
(* datagram if it has been answered.                                       *)
LEMMA LineMoves ==
    ASSUME IInv, Shapes', UNCHANGED inbox, cur' \in {cur, 0}, StepsLeft' < StepsLeft,
           NEW i \in 0..Len(inbox), NEW j \in 0..Len(inbox'),
           InLine(i) # 0, InLine(j)' = InLine(i)
    PROVE  Wait(j)' < Wait(i)
<1>1. inbox \in Seq(Nat) /\ Len(inbox) \in Nat
    BY DEF IInv, Shapes
<1>2. InLine(j) = InLine(i)
    BY DEF InLine
<1>3. i = j
    BY <1>2, LineOnce
<1>4. /\ StepsLeft \in Nat /\ StepsLeft' \in Nat
    BY StepsFacts, StepsNext DEF IInv, StepsOK
<1>5. MostSteps \in Nat /\ i \in Nat /\ i * MostSteps \in Nat
    BY <1>1, StepsFacts DEF IInv, StepsOK
<1>6. Wait(j)' = j * MostSteps + StepsLeft' /\ Wait(i) = i * MostSteps + StepsLeft
    BY DEF Wait, MostSteps
<1>7. QED
    BY <1>3, <1>4, <1>5, <1>6, Sums

LEMMA ReceiveLine ==
    ASSUME IInv, Shapes', Receive, NEW i \in 0..Len(inbox), NEW j \in 0..Len(inbox'),
           InLine(i) # 0, InLine(j)' = InLine(i)
    PROVE  Wait(j)' < Wait(i)
<1>1. /\ inbox \in Seq(Nat) /\ inbox # <<>> /\ pc = "idle"
      /\ cur' = Head(inbox) /\ inbox' = Tail(inbox)
    BY DEF IInv, Shapes, Receive
<1>2. j + 1 \in 1..Len(inbox) /\ InLine(j + 1) = InLine(j)'
  <2>1. Len(inbox') = Len(inbox) - 1 /\ Len(inbox) \in Nat
      BY <1>1
  <2>2. cur' = inbox[1] /\ \A k \in 1..Len(inbox') : inbox'[k] = inbox[k + 1]
      BY <1>1
  <2>3. QED
      BY <2>1, <2>2 DEF InLine
<1>3. i = j + 1
    BY <1>2, LineOnce
<1>4. /\ StepsLeft = 0 /\ StepsLeft' \in Nat /\ StepsLeft' < MostSteps /\ MostSteps \in Nat
    BY <1>1, StepsFacts, StepsNext DEF IInv, StepsOK
<1>5. j \in Nat /\ j * MostSteps \in Nat
    BY <1>4
<1>6. i * MostSteps = j * MostSteps + MostSteps
    BY <1>3, <1>4, <1>5
<1>7. i \in Nat
    BY <1>3, <1>5
<1>8. Wait(j)' = j * MostSteps + StepsLeft' /\ Wait(i) = i * MostSteps + StepsLeft
    BY DEF Wait, MostSteps
<1>9. Wait(j)' < j * MostSteps + MostSteps
    BY <1>4, <1>5, <1>8, Sums
<1>10. Wait(i) = j * MostSteps + MostSteps
    BY <1>4, <1>5, <1>6, <1>7, <1>8
<1>11. QED
    BY <1>9, <1>10

(* A datagram of a client goes to the end of the line.                     *)
LEMMA ArriveLine ==
    ASSUME IInv, Arrive, NEW i \in 0..Len(inbox), NEW j \in 0..Len(inbox'),
           InLine(i) # 0, InLine(j)' = InLine(i)
    PROVE  arrived' # arrived /\ Wait(j)' = Wait(i)
<1>1. /\ inbox \in Seq(Nat) /\ Len(inbox) \in Nat /\ arrived \in Seq(Query)
      /\ Len(arrived) \in Nat /\ cur \in 0..Len(arrived)
    BY DEF IInv, Shapes
<1>2. Len(arrived') = Len(arrived) + 1 /\ UNCHANGED <<pc, cur, idx>>
    BY <1>1 DEF Arrive, locals
<1>3. inbox' = inbox \/ inbox' = Append(inbox, Len(arrived) + 1)
    BY DEF Arrive
<1>4. InLine(i) <= Len(arrived)
    BY <1>1 DEF IInv, InOrder, InLine
<1>5. j \in 0..Len(inbox) /\ InLine(j)' = InLine(j)
  <2>1. CASE inbox' = inbox
      BY <1>2, <2>1 DEF InLine
  <2>2. CASE inbox' = Append(inbox, Len(arrived) + 1)
    <3>1. /\ Len(inbox') = Len(inbox) + 1 /\ inbox'[Len(inbox) + 1] = Len(arrived) + 1
          /\ \A k \in 1..Len(inbox) : inbox'[k] = inbox[k]
        BY <1>1, <2>2
    <3>2. j # Len(inbox) + 1
      <4>1. SUFFICES ASSUME j = Len(inbox) + 1 PROVE FALSE
          OBVIOUS
      <4>2. InLine(j)' = inbox'[j]
          BY <1>1, <4>1 DEF InLine
      <4>3. QED
          BY <1>1, <1>4, <3>1, <4>1, <4>2
    <3>3. j \in 0..Len(inbox)
        BY <1>1, <3>1, <3>2
    <3>4. QED
        BY <1>1, <1>2, <3>1, <3>3 DEF InLine
  <2>3. QED
      BY <1>3, <2>1, <2>2
<1>6. i = j
    BY <1>5, LineOnce
<1>7. StepsLeft' = StepsLeft
    BY <1>2 DEF StepsLeft
<1>8. QED
    BY <1>1, <1>2, <1>6, <1>7 DEF Wait

(* The steps with a datagram in hand, which have fewer ones left.          *)
LEMMA FailSteps ==
    ASSUME IInv, Shapes', AskFails \/ Timeout
    PROVE  UNCHANGED inbox /\ cur' \in {cur, 0} /\ StepsLeft' < StepsLeft
<1>1. pc \in {"ask", "wait"} /\ UpstreamFails /\ UNCHANGED <<inbox, cur>>
    BY DEF AskFails, Timeout
<1>2. StepsOK /\ StepsOK'
    BY StepsFacts, StepsNext DEF IInv
<1>3. \/ pc' = "ask" /\ idx' = idx + 1
      \/ pc' = "respond"
    BY <1>1 DEF UpstreamFails, Respond
<1>4. QED
    BY <1>1, <1>2, <1>3 DEF StepsOK

LEMMA OtherSteps ==
    ASSUME IInv, Shapes', Ask \/ TakeReply \/ Store \/ StoreFails \/ Send
    PROVE  UNCHANGED inbox /\ cur' \in {cur, 0} /\ StepsLeft' < StepsLeft
<1>1. StepsOK /\ StepsOK'
    BY StepsFacts, StepsNext DEF IInv
<1>2. UNCHANGED inbox /\ cur' \in {cur, 0}
    BY DEF Ask, TakeReply, Store, StoreFails, Send, locals
<1>3. \/ pc = "ask" /\ pc' = "wait" /\ idx' = idx
      \/ pc = "wait" /\ pc' \in {"store", "respond"}
      \/ pc = "store" /\ pc' = "respond"
      \/ pc = "respond" /\ pc' = "idle"
  <2>1. CASE TakeReply
    <3>1. pc = "wait" /\ pc' \in {"store", "respond"}
        BY <2>1 DEF TakeReply, Respond
    <3>2. QED
        BY <3>1
  <2>2. CASE Ask \/ Store \/ StoreFails \/ Send
      BY <2>2 DEF Ask, Store, StoreFails, Send, Respond, locals
  <2>3. QED
      BY <2>1, <2>2
<1>4. StepsLeft' < StepsLeft
  <2>1. CASE pc = "ask" /\ pc' = "wait" /\ idx' = idx
      BY <1>1, <2>1 DEF StepsOK
  <2>2. CASE pc = "wait" /\ pc' \in {"store", "respond"}
      BY <1>1, <2>2 DEF StepsOK
  <2>3. CASE (pc = "store" /\ pc' = "respond") \/ (pc = "respond" /\ pc' = "idle")
      BY <1>1, <2>3 DEF StepsOK
  <2>4. QED
      BY <1>3, <2>1, <2>2, <2>3
<1>5. QED
    BY <1>2, <1>4

(* dns_proxy.rs:57-76, 176-210.  No datagram waits for more than a fixed   *)
(* number of the proxy's steps, for each one before it and for itself,     *)
(* whatever upstreams and clients do: for any number of them.              *)
THEOREM WaitsAreBounded == Spec => ServedInTurn
<1> DEFINE Nearer == \A i \in 0..Len(inbox), j \in 0..Len(inbox') :
          InLine(i) # 0 /\ InLine(j)' = InLine(i) =>
              IF arrived' = arrived THEN Wait(j)' < Wait(i) ELSE Wait(j)' = Wait(i)
<1>1. TurnInv /\ [Next]_vars => [Nearer]_vars
  <2>1. SUFFICES ASSUME TurnInv, Next, NEW i \in 0..Len(inbox), NEW j \in 0..Len(inbox'),
                        InLine(i) # 0, InLine(j)' = InLine(i)
                 PROVE  IF arrived' = arrived THEN Wait(j)' < Wait(i) ELSE Wait(j)' = Wait(i)
      OBVIOUS
  <2>2. IInv /\ Shapes' /\ inbox \in Seq(Nat)
      BY <2>1, NextInv DEF TurnInv, IInv, Shapes
  <2>3. CASE Arrive
      BY <2>1, <2>2, <2>3, ArriveLine
  <2>4. CASE Receive
    <3>1. Wait(j)' < Wait(i)
        BY <2>1, <2>2, <2>4, ReceiveLine
    <3>2. QED
        BY <2>4, <3>1 DEF Receive, clients
  <2>5. CASE AskFails \/ Timeout \/ Ask \/ TakeReply \/ Store \/ StoreFails \/ Send
    <3>1. Wait(j)' < Wait(i)
        BY <2>1, <2>2, <2>5, FailSteps, OtherSteps, LineMoves
    <3>2. arrived' = arrived
        BY <2>5 DEF AskFails, Timeout, Ask, TakeReply, Store, StoreFails, Send, clients
    <3>3. QED
        BY <3>1, <3>2
  <2>6. CASE Crash
    <3>1. inbox' = <<>> /\ cur' = 0
        BY <2>6 DEF Crash
    <3>2. InLine(j)' = 0
        BY <3>1 DEF InLine
    <3>3. QED
        BY <2>1, <3>2
  <2>7. CASE Restart
    <3>1. pc = "off" /\ inbox = <<>>
        BY <2>1, <2>7 DEF Restart, TurnInv
    <3>2. i = 0 /\ cur = 0
        BY <2>2, <3>1 DEF IInv, Shapes
    <3>3. QED
        BY <2>1, <3>2 DEF InLine
  <2>8. QED
      BY <2>1, <2>3, <2>4, <2>5, <2>6, <2>7 DEF Next, Proxy
<1>2. Spec => [][Nearer]_vars
    BY <1>1, InitTurn, NextTurn, PTL DEF Spec
<1>3. QED
    BY <1>2 DEF ServedInTurn
=============================================================================
