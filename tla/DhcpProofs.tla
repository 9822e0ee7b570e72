----------------------------- MODULE DhcpProofs -----------------------------
(***************************************************************************)
(* Proofs about the DHCP client, for any servers, lease times, waits and   *)
(* retries.                                                                *)
(*                                                                         *)
(* Pacing: what was sent in this second and what could still be sent in it *)
(* (Left) are two messages at most.                                        *)
(*                                                                         *)
(* Leasing: a lease goes with time in hand.  An ACK under way is no older  *)
(* than the time gone from the lease it grants (Granted), LEASED lasts for *)
(* half of a lease at most (Keeping), and in REREQUEST there is time for   *)
(* all the retries that are left (Remaining).  Only a DECLINE could take   *)
(* the lease away meanwhile, and none is then under way (Declines).        *)
(***************************************************************************)
EXTENDS Dhcp, TLAPS

\* The messages in a channel.
On(channel) == {channel[i] : i \in DOMAIN channel}

\* A second in which DHCP_run was not called yet.
Late == IF ran THEN 0 ELSE 1

(***************************************************************************)
(* Channels.                                                               *)
(***************************************************************************)
LEMMA PutOn ==
    ASSUME NEW S, NEW c \in Seq(S), NEW m \in S
    PROVE  Put(c, m) \in Seq(S) /\ On(Put(c, m)) \subseteq On(c) \cup {m}
  <1>1. CASE Len(c) < MaxFlight
    <2>1. Put(c, m) = Append(c, m)
      BY <1>1 DEF Put
    <2>2. ASSUME NEW i \in DOMAIN Append(c, m) PROVE Append(c, m)[i] \in On(c) \cup {m}
      BY <2>2 DEF On
    <2>. QED
      BY <2>1, <2>2 DEF On
  <1>2. CASE ~(Len(c) < MaxFlight)
    BY <1>2 DEF Put
  <1>. QED
    BY <1>1, <1>2

LEMMA TailOn ==
    ASSUME NEW S, NEW c \in Seq(S), c # <<>>
    PROVE  Head(c) \in S \cap On(c) /\ Tail(c) \in Seq(S) /\ On(Tail(c)) \subseteq On(c)
  <1>1. Head(c) \in S /\ Head(c) = c[1] /\ 1 \in DOMAIN c /\ Tail(c) \in Seq(S)
    OBVIOUS
  <1>2. ASSUME NEW i \in DOMAIN Tail(c) PROVE Tail(c)[i] \in On(c)
    BY <1>2 DEF On
  <1>. QED
    BY <1>1, <1>2 DEF On

LEMMA UnreadOn ==
    ASSUME NEW S, NEW c \in Seq(S), NEW d \in Unread(c)
    PROVE  d \in Seq(S) /\ \A m \in On(d) : m \in On(c) /\ m.age < Delay
  <1>1. PICK n \in 0 .. Len(c) : /\ \A i \in n + 1 .. Len(c) : c[i].age < Delay
                                 /\ d = SubSeq(c, n + 1, Len(c))
    BY DEF Unread
  <1>2. d \in Seq(S) /\ DOMAIN d = 1 .. Len(c) - n
    BY <1>1
  <1>3. ASSUME NEW i \in DOMAIN d PROVE d[i] \in On(c) /\ d[i].age < Delay
    <2>1. n + i \in n + 1 .. Len(c) /\ d[i] = c[n + i]
      BY <1>1, <1>2
    <2>. QED
      BY <1>1, <2>1 DEF On
  <1>. QED
    BY <1>2, <1>3 DEF On

LEMMA OlderOn ==
    ASSUME NEW S, NEW c \in Seq(S)
    PROVE  On(Older(c)) = {[m EXCEPT !.age = IF @ < Delay THEN @ + 1 ELSE @] : m \in On(c)}
  BY DEF On, Older

LEMMA OlderMessages ==
    ASSUME Delay \in Nat, NEW c \in Seq(Messages) PROVE Older(c) \in Seq(Messages)
  <1>1. ASSUME NEW m \in Messages
        PROVE  [m EXCEPT !.age = IF @ < Delay THEN @ + 1 ELSE @] \in Messages
    BY DEF Messages
  <1>2. DOMAIN c = 1 .. Len(c) /\ Len(c) \in Nat /\ \A i \in 1 .. Len(c) : c[i] \in Messages
    OBVIOUS
  <1>. QED
    BY <1>1, <1>2 DEF Older

LEMMA OlderAnswers ==
    ASSUME Delay \in Nat, NEW c \in Seq(Answers) PROVE Older(c) \in Seq(Answers)
  <1>1. ASSUME NEW m \in Answers
        PROVE  [m EXCEPT !.age = IF @ < Delay THEN @ + 1 ELSE @] \in Answers
    BY DEF Answers
  <1>2. DOMAIN c = 1 .. Len(c) /\ Len(c) \in Nat /\ \A i \in 1 .. Len(c) : c[i] \in Answers
    OBVIOUS
  <1>. QED
    BY <1>1, <1>2 DEF Older

-----------------------------------------------------------------------------
(***************************************************************************)
(* What the operations do to the channels, and the types.                  *)
(***************************************************************************)
LEMMA Sending ==
    ASSUME TypeOK, ip' \in Servers \cup {None}, sip' \in Servers \cup {None},
           NEW type \in {"DISCOVER", "REQUEST", "RENEW", "DECLINE"},
           Broadcast(type) \/ Unicast(type) \/ Silent
    PROVE  /\ up' \in [Servers -> Seq(Messages)]
           /\ \A s \in Servers : On(up'[s]) \subseteq On(up[s]) \cup {Message(type)}
  <1>1. Message(type) \in Messages
    BY TimeAssumption DEF Message, Messages
  <1>2. ASSUME NEW s \in Servers
        PROVE  /\ Put(up[s], Message(type)) \in Seq(Messages)
               /\ On(Put(up[s], Message(type))) \subseteq On(up[s]) \cup {Message(type)}
    <2>1. up[s] \in Seq(Messages)
      BY DEF TypeOK
    <2>. QED
      BY <1>1, <2>1, PutOn
  <1> HIDE DEF Message
  <1>3. CASE Broadcast(type)
    BY <1>2, <1>3 DEF Broadcast
  <1>4. CASE Unicast(type)
    BY <1>2, <1>4 DEF Unicast, TypeOK
  <1>5. CASE Silent
    BY <1>5 DEF Silent, TypeOK
  <1>. QED
    BY <1>3, <1>4, <1>5

\* A message read was one from a server's channel.
LEMMA Parsing ==
    ASSUME TypeOK, NEW s \in Servers \cup {None}, parseDHCPMSG(s)
    PROVE  /\ lease' \in {Lease[t] : t \in Servers} \cup {None}
           /\ sip' \in Servers \cup {None}
           /\ down' \in [Servers -> Seq(Answers)]
           /\ \A t \in Servers : On(down'[t]) \subseteq On(down[t])
           /\ Type(s) \in {"OFFER", "ACK", "NAK"} =>
                 s \in Servers /\ \E m \in On(down[s]) \cap Answers : m.type = Type(s)
  <1>1. CASE s = None
    BY <1>1 DEF parseDHCPMSG, TypeOK, Type
  <1>2. CASE s # None
    <2>1. s \in Servers /\ down[s] \in Seq(Answers) /\ down[s] # <<>>
      BY <1>2 DEF parseDHCPMSG, TypeOK
    <2>2. /\ Head(down[s]) \in Answers \cap On(down[s]) /\ Tail(down[s]) \in Seq(Answers)
          /\ On(Tail(down[s])) \subseteq On(down[s])
      BY <2>1, TailOn
    <2>3. down' = [down EXCEPT ![s] = Tail(@)]
      BY <1>2 DEF parseDHCPMSG
    <2>4. down' \in [Servers -> Seq(Answers)] /\ \A t \in Servers : On(down'[t]) \subseteq On(down[t])
      BY <2>1, <2>2, <2>3 DEF TypeOK
    <2>5. lease' \in {Lease[t] : t \in Servers} \cup {None} /\ sip' \in Servers \cup {None}
      BY <1>2, <2>1 DEF parseDHCPMSG, TypeOK
    <2>. QED
      BY <1>2, <2>1, <2>2, <2>4, <2>5 DEF Type
  <1>. QED
    BY <1>1, <1>2

LEMMA Clearing ==
    ASSUME TypeOK, Declined
    PROVE  /\ down' \in [Servers -> Seq(Answers)]
           /\ \A s \in Servers : \A m \in On(down'[s]) : m \in On(down[s]) /\ m.age < Delay
  <1>1. PICK d \in [Servers -> UNION {Unread(down[s]) : s \in Servers}] :
            down' = d /\ \A s \in Servers : d[s] \in Unread(down[s])
    BY DEF Declined
  <1>2. ASSUME NEW s \in Servers
        PROVE  d[s] \in Seq(Answers) /\ \A m \in On(d[s]) : m \in On(down[s]) /\ m.age < Delay
    <2>1. down[s] \in Seq(Answers) /\ d[s] \in Unread(down[s])
      BY <1>1 DEF TypeOK
    <2>. QED
      BY <2>1, UnreadOn
  <1>. QED
    BY <1>1, <1>2

LEMMA Timeout ==
    ASSUME TypeOK, UNCHANGED ip, sip' \in Servers \cup {None}, check_DHCP_timeout,
           state \in {"DISCOVER", "REQUEST", "REREQUEST"}
    PROVE  /\ state' \in {"INIT", "DISCOVER", state}
           /\ tick' \in {0, tick} /\ retry' \in 0 .. MaxRetry
           /\ chip' \in {chip, None} /\ sent' \in Nat
           /\ up' \in [Servers -> Seq(Messages)]
           /\ \A s \in Servers : \A m \in On(up'[s]) : m \in On(up[s]) \/ m.type # "DECLINE"
  <1>1. PICK type \in {"DISCOVER", "REQUEST", "RENEW"} : Broadcast(type) \/ Unicast(type) \/ Silent
    BY DEF check_DHCP_timeout, Retry
  <1>2. /\ up' \in [Servers -> Seq(Messages)]
        /\ \A s \in Servers : On(up'[s]) \subseteq On(up[s]) \cup {Message(type)}
    BY <1>1, Sending DEF TypeOK
  <1>3. Message(type).type # "DECLINE"
    BY DEF Message
  <1>4. MaxRetry \in Nat
    BY TimeAssumption
  <1>5. /\ state' \in {"INIT", "DISCOVER", state}
        /\ tick' \in {0, tick} /\ retry' \in 0 .. MaxRetry
        /\ chip' \in {chip, None} /\ sent' \in Nat
    <2>1. retry \in 0 .. MaxRetry /\ sent \in Nat
      BY DEF TypeOK
    <2>2. CASE retry < MaxRetry
      BY <1>4, <2>1, <2>2 DEF check_DHCP_timeout, Retry
    <2>3. CASE ~(retry < MaxRetry)
      BY <1>4, <2>1, <2>3 DEF check_DHCP_timeout, reset_DHCP_timeout
    <2>. QED
      BY <2>2, <2>3
  <1>. QED
    BY <1>2, <1>3, <1>5

\* A server takes a message; only a DECLINE makes it forget the client.
LEMMA Serving ==
    ASSUME TypeOK, NEW s \in Servers, Serve(s) \/ Refuse(s) \/ Lose(s)
    PROVE  /\ UNCHANGED <<client, giver, ran, sent>>
           /\ up' \in [Servers -> Seq(Messages)] /\ down' \in [Servers -> Seq(Answers)]
           /\ bound' \in [Servers -> Nat]
           /\ \A t \in Servers : On(up'[t]) \subseteq On(up[t])
           /\ \A t \in Servers : \A m \in On(down'[t]) :
                 m \in On(down[t]) \/ m.type # "ACK" \/ (m.age = 0 /\ bound'[t] = Lease[t])
           /\ \A t \in Servers :
                 bound'[t] \in {bound[t], Lease[t]} \/ \E m \in On(up[t]) : m.type = "DECLINE"
  <1>0. up[s] \in Seq(Messages) /\ down[s] \in Seq(Answers)
    BY DEF TypeOK
  <1>1. ASSUME up[s] # <<>>, up' = [up EXCEPT ![s] = Tail(@)]
        PROVE  /\ Head(up[s]) \in On(up[s]) /\ up' \in [Servers -> Seq(Messages)]
               /\ \A t \in Servers : On(up'[t]) \subseteq On(up[t])
    <2>1. Head(up[s]) \in On(up[s]) /\ Tail(up[s]) \in Seq(Messages) /\ On(Tail(up[s])) \subseteq On(up[s])
      BY <1>0, <1>1, TailOn
    <2>. QED
      BY <1>1, <2>1 DEF TypeOK
  <1>2. ASSUME NEW type \in {"OFFER", "ACK", "NAK"}, Reply(s, type)
        PROVE  /\ down' \in [Servers -> Seq(Answers)]
               /\ \A t \in Servers : \A m \in On(down'[t]) :
                     m \in On(down[t]) \/ (t = s /\ m = [type |-> type, age |-> 0])
    <2>1. [type |-> type, age |-> 0] \in Answers
      BY TimeAssumption DEF Answers
    <2>2. /\ Put(down[s], [type |-> type, age |-> 0]) \in Seq(Answers)
          /\ On(Put(down[s], [type |-> type, age |-> 0])) \subseteq
                On(down[s]) \cup {[type |-> type, age |-> 0]}
      BY <1>0, <2>1, PutOn
    <2>. QED
      BY <1>2, <2>2 DEF Reply, TypeOK
  <1>3. CASE Serve(s)
    <2>0. PICK m : m = Head(up[s])
      OBVIOUS
    <2>1. up[s] # <<>> /\ up' = [up EXCEPT ![s] = Tail(@)] /\ UNCHANGED <<client, giver, ran, sent>>
      BY <1>3 DEF Serve
    <2>2. m \in On(up[s])
      BY <1>1, <2>0, <2>1
    <2>3. \/ \E type \in {"OFFER", "NAK"} : Reply(s, type) /\ UNCHANGED bound
          \/ Reply(s, "ACK") /\ bound' = [bound EXCEPT ![s] = Lease[s]]
          \/ UNCHANGED <<down, bound>>
          \/ m.type = "DECLINE" /\ bound' = [bound EXCEPT ![s] = 0] /\ UNCHANGED down
      BY <1>3, <2>0 DEF Serve
    <2>4. CASE \E type \in {"OFFER", "NAK"} : Reply(s, type) /\ UNCHANGED bound
      BY <1>1, <1>2, <2>1, <2>4 DEF TypeOK
    <2>5. CASE Reply(s, "ACK") /\ bound' = [bound EXCEPT ![s] = Lease[s]]
      <3>1. /\ down' \in [Servers -> Seq(Answers)]
            /\ \A t \in Servers : \A n \in On(down'[t]) :
                  n \in On(down[t]) \/ (t = s /\ n = [type |-> "ACK", age |-> 0])
        BY <1>2, <2>5
      <3>2. /\ bound' \in [Servers -> Nat] /\ bound'[s] = Lease[s]
            /\ \A t \in Servers : bound'[t] \in {bound[t], Lease[t]}
        BY <2>5, ServerAssumption DEF TypeOK
      <3>3. [type |-> "ACK", age |-> 0].age = 0
        OBVIOUS
      <3>. QED
        BY <1>1, <2>1, <3>1, <3>2, <3>3
    <2>6. CASE UNCHANGED <<down, bound>>
      BY <1>1, <2>1, <2>6 DEF TypeOK
    <2>7. CASE m.type = "DECLINE" /\ bound' = [bound EXCEPT ![s] = 0] /\ UNCHANGED down
      BY <1>1, <2>1, <2>2, <2>7 DEF TypeOK
    <2>. QED
      BY <2>3, <2>4, <2>5, <2>6, <2>7
  <1>4. CASE Refuse(s)
    BY <1>1, <1>2, <1>4 DEF Refuse, TypeOK
  <1>5. CASE Lose(s)
    <2>1. CASE up[s] # <<>> /\ up' = [up EXCEPT ![s] = Tail(@)] /\ UNCHANGED down
      BY <1>1, <1>5, <2>1 DEF Lose, TypeOK
    <2>2. CASE down[s] # <<>> /\ down' = [down EXCEPT ![s] = Tail(@)] /\ UNCHANGED up
      <3>1. Tail(down[s]) \in Seq(Answers) /\ On(Tail(down[s])) \subseteq On(down[s])
        BY <1>0, <2>2, TailOn
      <3>. QED
        BY <1>5, <2>2, <3>1 DEF Lose, TypeOK
    <2>. QED
      BY <1>5, <2>1, <2>2 DEF Lose
  <1>. QED
    BY <1>3, <1>4, <1>5

\* A second: what was under way less than Delay is a second older.
LEMMA Passing ==
    ASSUME TypeOK, Tick
    PROVE  /\ up' \in [Servers -> Seq(Messages)] /\ down' \in [Servers -> Seq(Answers)]
           /\ bound' \in [Servers -> Nat]
           /\ \A s \in Servers : \A n \in On(up'[s]) :
                 \E m \in On(up[s]) : n.type = m.type /\ m.age < Delay /\ n.age = m.age + 1
           /\ \A s \in Servers : \A n \in On(down'[s]) :
                 \E m \in On(down[s]) :
                    n.type = m.type /\ n.age = IF m.age < Delay THEN m.age + 1 ELSE m.age
           /\ state # "DECLINED" => \A s \in Servers : \A m \in On(down[s]) : m.age < Delay
  <1>0. Delay \in Nat
    BY TimeAssumption
  <1>1. ASSUME NEW s \in Servers
        PROVE  /\ up[s] \in Seq(Messages) /\ Older(up[s]) \in Seq(Messages)
               /\ \A m \in On(up[s]) : m.age < Delay
               /\ \A n \in On(Older(up[s])) :
                 \E m \in On(up[s]) : n.type = m.type /\ m.age < Delay /\ n.age = m.age + 1
    <2>1. up[s] \in Seq(Messages)
      BY DEF TypeOK
    <2>2. ASSUME NEW i \in DOMAIN up[s] PROVE up[s][i] \in Messages /\ up[s][i].age < Delay
      <3>1. up[s][i] \in Messages
        BY <2>1
      <3>2. ~(up[s][i].age >= Delay)
        BY DEF Tick, Old
      <3>. QED
        BY <1>0, <3>1, <3>2 DEF Messages
    <2>3. \A m \in On(up[s]) : m \in Messages /\ m.age < Delay
      BY <2>2 DEF On
    <2>4. ASSUME NEW n \in On(Older(up[s]))
          PROVE  \E m \in On(up[s]) : n.type = m.type /\ m.age < Delay /\ n.age = m.age + 1
      <3>1. PICK m \in On(up[s]) : n = [m EXCEPT !.age = IF @ < Delay THEN @ + 1 ELSE @]
        BY <2>1, OlderOn
      <3>. QED
        BY <2>3, <3>1 DEF Messages
    <2>. QED
      BY <1>0, <2>1, <2>3, <2>4, OlderMessages
  <1>2. ASSUME NEW s \in Servers
        PROVE  /\ Older(down[s]) \in Seq(Answers)
               /\ state # "DECLINED" => \A m \in On(down[s]) : m.age < Delay
               /\ \A n \in On(Older(down[s])) :
                 \E m \in On(down[s]) :
                    n.type = m.type /\ n.age = IF m.age < Delay THEN m.age + 1 ELSE m.age
    <2>1. down[s] \in Seq(Answers)
      BY DEF TypeOK
    <2>2. ASSUME NEW i \in DOMAIN down[s]
          PROVE  down[s][i] \in Answers /\ (state # "DECLINED" => down[s][i].age < Delay)
      <3>1. down[s][i] \in Answers
        BY <2>1
      <3>2. state # "DECLINED" => ~(down[s][i].age >= Delay)
        BY DEF Tick, Old
      <3>. QED
        BY <1>0, <3>1, <3>2 DEF Answers
    <2>3. \A m \in On(down[s]) : m \in Answers /\ (state # "DECLINED" => m.age < Delay)
      BY <2>2 DEF On
    <2>4. ASSUME NEW n \in On(Older(down[s]))
          PROVE  \E m \in On(down[s]) :
                    n.type = m.type /\ n.age = IF m.age < Delay THEN m.age + 1 ELSE m.age
      <3>1. PICK m \in On(down[s]) : n = [m EXCEPT !.age = IF @ < Delay THEN @ + 1 ELSE @]
        BY <2>1, OlderOn
      <3>. QED
        BY <2>3, <3>1 DEF Answers
    <2>. QED
      BY <1>0, <2>1, <2>3, <2>4, OlderAnswers
  <1>3. bound' \in [Servers -> Nat]
    <2>1. bound \in [Servers -> Nat]
      BY DEF TypeOK
    <2>2. bound' = [s \in Servers |-> IF bound[s] > 0 THEN bound[s] - 1 ELSE 0]
      BY DEF Tick
    <2>. QED
      BY ONLY <2>1, <2>2
  <1>. QED
    BY <1>1, <1>2, <1>3 DEF Tick

States == {"INIT", "DISCOVER", "REQUEST", "LEASED", "REREQUEST", "DECLINED"}

\* What every call of DHCP_run leaves and does, whichever its case.
LEMMA Running ==
    ASSUME TypeOK, NEW s \in Servers \cup {None}, DHCP_run(s)
    PROVE  /\ TypeOK' /\ UNCHANGED bound /\ ran'
           /\ \A t \in Servers : \A m \in On(up'[t]) :
                 m \in On(up[t]) \/ m.type # "DECLINE" \/ (state' = "DECLINED" /\ tick' = 0)
           /\ \A t \in Servers : \A m \in On(down'[t]) : m \in On(down[t])
           /\ state = "DECLINED" =>
                 tick >= 2 /\ \A t \in Servers : \A m \in On(down'[t]) : m.age < Delay
           /\ state' = "DECLINED" => state # "DECLINED" /\ tick' = 0
  <1>0. /\ 0 \in 0 .. MaxTick /\ 0 \in 0 .. MaxRetry /\ None \in Servers \cup {None}
        /\ tick \in 0 .. MaxTick /\ retry \in 0 .. MaxRetry /\ {ip, sip, chip, giver} \subseteq Servers \cup {None}
        /\ sent \in Nat
    BY TimeAssumption DEF TypeOK
  <1>1. ran' = TRUE /\ UNCHANGED bound /\ giver' \in Servers \cup {None}
    BY <1>0 DEF DHCP_run
  <1>2. ASSUME parseDHCPMSG(s),
               Restart \/ Offered(s) \/ Leased(s) \/ Conflict(s) \/ Refused(s)
                  \/ Renew \/ Renewed(s) \/ Waiting(s)
        PROVE  /\ state # "DECLINED"
               /\ state' \in States /\ tick' \in 0 .. MaxTick /\ retry' \in 0 .. MaxRetry
               /\ {ip', chip'} \subseteq Servers \cup {None} /\ sent' \in Nat
               /\ up' \in [Servers -> Seq(Messages)]
               /\ \A t \in Servers : \A m \in On(up'[t]) :
                 m \in On(up[t]) \/ m.type # "DECLINE" \/ (state' = "DECLINED" /\ tick' = 0)
               /\ state' = "DECLINED" => tick' = 0
    <2>0. sip' \in Servers \cup {None} /\ (Type(s) = "OFFER" => s \in Servers)
      BY <1>2, Parsing
    <2>1. ASSUME ip' \in Servers \cup {None}, NEW type \in {"DISCOVER", "REQUEST", "RENEW"},
                 Broadcast(type) \/ Unicast(type) \/ Silent
          PROVE  /\ up' \in [Servers -> Seq(Messages)]
                 /\ \A t \in Servers : \A m \in On(up'[t]) : m \in On(up[t]) \/ m.type # "DECLINE"
      <3>1. /\ up' \in [Servers -> Seq(Messages)]
            /\ \A t \in Servers : On(up'[t]) \subseteq On(up[t]) \cup {Message(type)}
        BY <2>0, <2>1, Sending
      <3>2. Message(type).type # "DECLINE"
        BY DEF Message
      <3>. QED
        BY <3>1, <3>2
    <2>2. CASE Restart
      <3>1. ip' \in Servers \cup {None} /\ Broadcast("DISCOVER")
        BY <1>0, <2>2 DEF Restart
      <3>. QED
        BY <1>0, <2>1, <2>2, <3>1 DEF Restart, States
    <2>3. CASE Offered(s)
      <3>1. ip' \in Servers \cup {None} /\ Broadcast("REQUEST")
        BY <2>0, <2>3 DEF Offered
      <3>. QED
        BY <1>0, <2>1, <2>3, <3>1 DEF Offered, States
    <2>4. CASE Leased(s)
      <3>1. ip' \in Servers \cup {None} /\ Silent
        BY <1>0, <2>4 DEF Leased
      <3>. QED
        BY <1>0, <2>1, <2>4, <3>1 DEF Leased, States, reset_DHCP_timeout
    <2>5. CASE Conflict(s)
      <3>1. ip' \in Servers \cup {None} /\ Broadcast("DECLINE")
        BY <1>0, <2>5 DEF Conflict
      <3>2. up' \in [Servers -> Seq(Messages)]
        BY <2>0, <3>1, Sending
      <3>. QED
        BY <1>0, <2>5, <3>2 DEF Conflict, States
    <2>6. CASE Refused(s)
      <3>1. ip' \in Servers \cup {None} /\ Silent
        BY <1>0, <2>6 DEF Refused
      <3>. QED
        BY <1>0, <2>1, <2>6, <3>1 DEF Refused, States, reset_DHCP_timeout
    <2>7. CASE Renew
      <3>1. ip' \in Servers \cup {None} /\ (Unicast("RENEW") \/ Silent)
        BY <1>0, <2>7 DEF Renew
      <3>. QED
        BY <1>0, <2>1, <2>7, <3>1 DEF Renew, States, reset_DHCP_timeout
    <2>8. CASE Renewed(s)
      <3>1. ip' \in Servers \cup {None} /\ Silent
        BY <1>0, <2>8 DEF Renewed
      <3>. QED
        BY <1>0, <2>1, <2>8, <3>1 DEF Renewed, States, reset_DHCP_timeout
    <2>9. CASE Waiting(s)
      <3>1. /\ UNCHANGED ip /\ check_DHCP_timeout /\ state \in {"DISCOVER", "REQUEST", "REREQUEST"}
        BY <2>9 DEF Waiting
      <3>. QED
        BY <1>0, <2>0, <3>1, Timeout DEF States
    <2>. QED
      BY <1>2, <2>2, <2>3, <2>4, <2>5, <2>6, <2>7, <2>8, <2>9
  <1>3. CASE /\ parseDHCPMSG(s)
             /\ Restart \/ Offered(s) \/ Leased(s) \/ Conflict(s) \/ Refused(s)
                  \/ Renew \/ Renewed(s) \/ Waiting(s)
    <2>1. /\ lease' \in {Lease[t] : t \in Servers} \cup {None}
          /\ sip' \in Servers \cup {None}
          /\ down' \in [Servers -> Seq(Answers)]
          /\ \A t \in Servers : On(down'[t]) \subseteq On(down[t])
      BY <1>3, Parsing
    <2>2. TypeOK'
      BY <1>1, <1>2, <1>3, <2>1 DEF TypeOK, States
    <2>. QED
      BY <1>1, <1>2, <1>3, <2>1, <2>2
  <1>4. CASE Declined
    <2>1. /\ down' \in [Servers -> Seq(Answers)]
          /\ \A t \in Servers : \A m \in On(down'[t]) : m \in On(down[t]) /\ m.age < Delay
      BY <1>4, Clearing
    <2>2. TypeOK'
      BY <1>0, <1>1, <1>4, <2>1 DEF TypeOK, Declined, reset_DHCP_timeout, Silent
    <2>. QED
      BY <1>1, <1>4, <2>1, <2>2 DEF Declined, Silent
  <1>. QED
    BY <1>3, <1>4 DEF DHCP_run

LEMMA NextType == TypeOK /\ [Next]_vars => TypeOK'
  <1> SUFFICES ASSUME TypeOK, [Next]_vars PROVE TypeOK'
    OBVIOUS
  <1>1. ASSUME NEW s \in Servers \cup {None}, DHCP_run(s) PROVE TypeOK'
    BY <1>1, Running
  <1>2. ASSUME NEW s \in Servers, Serve(s) \/ Refuse(s) \/ Lose(s) PROVE TypeOK'
    BY <1>2, Serving DEF TypeOK, client
  <1>3. CASE Tick
    <2>1. tick' \in 0 .. MaxTick
      BY <1>3, TimeAssumption DEF Tick, TypeOK
    <2>. QED
      BY <1>3, <2>1, Passing DEF TypeOK, Tick
  <1>4. CASE UNCHANGED vars
    BY <1>4 DEF vars, client, net, TypeOK
  <1>. QED
    BY <1>1, <1>2, <1>3, <1>4 DEF Next

LEMMA InitType == Init => TypeOK
  <1>1. << >> \in Seq(Messages) /\ << >> \in Seq(Answers)
    OBVIOUS
  <1> SUFFICES ASSUME Init PROVE TypeOK
    OBVIOUS
  <1>2. up \in [Servers -> Seq(Messages)] /\ down \in [Servers -> Seq(Answers)]
    BY <1>1 DEF Init
  <1>3. bound \in [Servers -> Nat]
    BY DEF Init
  <1>4. tick \in 0 .. MaxTick /\ retry \in 0 .. MaxRetry /\ sent \in Nat
    BY TimeAssumption DEF Init
  <1>. QED
    BY <1>2, <1>3, <1>4 DEF Init, TypeOK

\* The variables keep their types: messages stay whole and young, lease times
\* and addresses are those of servers, and no second is counted past MaxTick.
THEOREM TypeCorrect == Spec => []TypeOK
  BY InitType, NextType, PTL DEF Spec

-----------------------------------------------------------------------------
(***************************************************************************)
(* How much is sent.                                                       *)
(***************************************************************************)
\* A search begins within the second after it was decided on, with all its
\* retries; and what is still sent in this second without a new Tick.
Steady == /\ state \in {"INIT", "LEASED"} => retry = 0
          /\ state = "INIT" => tick <= Late

Left == CASE state = "INIT" -> 1
          [] state \in {"LEASED", "DECLINED"} -> IF tick > 0 THEN 1 ELSE 0
          [] OTHER -> IF retry = MaxRetry THEN 1 ELSE IF tick > WaitTime THEN 2 ELSE 0

Pacing == TypeOK /\ Steady /\ sent + Left <= 2

LEMMA TimeoutPacing ==
    ASSUME Pacing, state \in {"DISCOVER", "REQUEST", "REREQUEST"}, check_DHCP_timeout, ran'
    PROVE  Steady' /\ sent' + Left' <= 2
  <1> USE DEF Pacing, Steady, Left, Late
  <1>0. /\ MaxRetry \in Nat \ {0} /\ WaitTime \in Nat \ {0}
        /\ tick \in Nat /\ retry \in 0 .. MaxRetry /\ sent \in Nat
    BY TimeAssumption DEF TypeOK
  <1>1. CASE retry < MaxRetry /\ tick > WaitTime
    BY <1>0, <1>1 DEF check_DHCP_timeout, Retry
  <1>2. CASE retry < MaxRetry /\ ~(tick > WaitTime)
    BY <1>0, <1>2 DEF check_DHCP_timeout
  <1>3. CASE ~(retry < MaxRetry)
    <2>1. retry = MaxRetry /\ sent <= 1
      BY <1>0, <1>3
    <2>. QED
      BY <1>0, <1>3, <2>1 DEF check_DHCP_timeout, reset_DHCP_timeout
  <1>. QED
    BY <1>1, <1>2, <1>3

LEMMA NextPacing == Pacing /\ [Next]_vars => Pacing'
  <1> SUFFICES ASSUME Pacing, [Next]_vars PROVE Steady' /\ sent' + Left' <= 2
    BY NextType DEF Pacing
  <1>0. /\ MaxRetry \in Nat \ {0} /\ WaitTime \in Nat \ {0}
        /\ tick \in Nat /\ retry \in 0 .. MaxRetry /\ sent \in Nat
    BY TimeAssumption DEF Pacing, TypeOK
  <1>1. ASSUME NEW s \in Servers \cup {None}, DHCP_run(s)
        PROVE  Steady' /\ sent' + Left' <= 2
    <2>0. ran' /\ TypeOK'
      BY <1>1, Running DEF Pacing
    <2>7. lease' \in Nat
      <3>1. \A t \in Servers : Lease[t] \in Nat
        BY ServerAssumption
      <3>2. lease' \in {Lease[t] : t \in Servers} \cup {None}
        BY <2>0 DEF TypeOK
      <3>. QED
        BY <3>1, <3>2 DEF None
    <2> USE DEF Pacing, Steady, Left, Late, reset_DHCP_timeout
    <2>1. CASE Restart
      BY <1>0, <2>0, <2>1 DEF Restart
    <2>2. CASE Offered(s) \/ Leased(s) \/ Refused(s) \/ Renewed(s)
      BY <1>0, <2>0, <2>2 DEF Offered, Leased, Refused, Renewed
    <2>3. CASE Conflict(s)
      BY <1>0, <2>0, <2>3 DEF Conflict
    <2>6. CASE Declined
      <3>1. state' = "INIT" /\ tick' = 0 /\ retry' = 0 /\ sent' = sent /\ state = "DECLINED"
        BY <2>6 DEF Declined
      <3>2. sent <= 1
        BY <1>0, <2>6, <3>1 DEF Declined
      <3>. QED
        BY <1>0, <2>0, <3>1, <3>2
    <2>4. CASE Renew
      <3>2. CASE Renewal
        <4>1. tick > 0
          BY <1>0, <2>7, <3>2 DEF Renewal
        <4>. QED
          BY <1>0, <2>4, <3>2, <4>1 DEF Renew
      <3>3. CASE ~Renewal
        BY <1>0, <2>4, <3>3 DEF Renew
      <3>. QED
        BY <3>2, <3>3
    <2>5. CASE Waiting(s)
      BY <2>0, <2>5, TimeoutPacing DEF Waiting
    <2>. QED
      BY <1>1, <2>1, <2>2, <2>3, <2>4, <2>5, <2>6 DEF DHCP_run
  <1>2. ASSUME NEW s \in Servers, Serve(s) \/ Refuse(s) \/ Lose(s)
        PROVE  Steady' /\ sent' + Left' <= 2
    BY <1>2, Serving DEF Pacing, Steady, Left, Late, client
  <1>3. CASE Tick
    BY <1>0, <1>3 DEF Tick, Pacing, Steady, Left, Late
  <1>4. CASE UNCHANGED vars
    BY <1>4 DEF vars, client, Pacing, Steady, Left, Late
  <1>. QED
    BY <1>1, <1>2, <1>3, <1>4 DEF Next

\* The client sends at most two messages a second that nobody asked for,
\* whatever comes and whenever, because each of them starts the wait anew.
THEOREM SendsLittle == Spec => []Paced
  <1>1. Init => Pacing
    BY InitType, TimeAssumption DEF Init, Pacing, Steady, Left, Late
  <1>2. Pacing => Paced
    BY DEF Pacing, Left, Paced, TypeOK
  <1>. QED
    BY <1>1, <1>2, NextPacing, PTL DEF Spec

-----------------------------------------------------------------------------
(***************************************************************************)
(* Leases.                                                                 *)
(***************************************************************************)
\* A DECLINE reaches every server before the client's two seconds are over.
Declines ==
    \A s \in Servers : \A m \in On(up[s]) :
        m.type = "DECLINE" => state = "DECLINED" /\ (tick = 0 \/ (tick = 1 /\ m.age >= 1))

\* An ACK that may still be taken is no older than the lease it grants.
Granted ==
    \A s \in Servers : \A m \in On(down[s]) :
        m.type = "ACK" /\ (state = "DECLINED" => tick >= 2 /\ m.age < Delay)
          => bound[s] + m.age >= Lease[s]

\* With a lease, the chip has the address, and the next step is not late.
Keeping ==
    state \in {"LEASED", "REREQUEST"} =>
        /\ giver \in Servers /\ chip = ip
        /\ state = "LEASED" => tick <= lease \div 2 + Late
        /\ state = "REREQUEST" => tick <= Late + IF retry < MaxRetry THEN WaitTime ELSE 0

\* What is left of the lease is enough for the retries that are left.
Patience(r) == (MaxRetry - r) * (WaitTime + 1)

Remaining ==
    giver = ip =>
        /\ state = "LEASED" => bound[ip] + tick >= Lease[ip] - Delay
        /\ state = "REREQUEST" => bound[ip] + tick > 1 + Patience(retry)

Leasing == TypeOK /\ Declines /\ Granted /\ Keeping /\ Remaining

LEMMA Ages ==
    ASSUME TypeOK, NEW s \in Servers
    PROVE  /\ \A m \in On(up[s]) : m.age \in Nat /\ m.age <= Delay
           /\ \A m \in On(down[s]) : m.age \in Nat /\ m.age <= Delay
  <1>0. Delay \in Nat /\ up[s] \in Seq(Messages) /\ down[s] \in Seq(Answers)
    BY TimeAssumption DEF TypeOK
  <1>1. On(up[s]) \subseteq Messages /\ On(down[s]) \subseteq Answers
    BY <1>0 DEF On
  <1>. QED
    BY <1>0, <1>1 DEF Messages, Answers

LEMMA NextDeclines == ASSUME Delay < 2, TypeOK, Declines, [Next]_vars PROVE Declines'
  <1>1. ASSUME NEW s \in Servers \cup {None}, DHCP_run(s) PROVE Declines'
    BY <1>1, Running DEF Declines
  <1>2. ASSUME NEW s \in Servers, Serve(s) \/ Refuse(s) \/ Lose(s) PROVE Declines'
    BY <1>2, Serving DEF Declines, client
  <1>3. CASE Tick
    <2> SUFFICES ASSUME NEW s \in Servers, NEW n \in On(up'[s]), n.type = "DECLINE"
                 PROVE  state' = "DECLINED" /\ tick' = 1 /\ n.age >= 1
      BY DEF Declines
    <2>1. PICK m \in On(up[s]) : n.type = m.type /\ m.age < Delay /\ n.age = m.age + 1
      <3>1. TypeOK /\ Tick
        BY <1>3
      <3>. QED
        BY ONLY <3>1, Passing, s \in Servers, n \in On(up'[s])
    <2>2. m.age \in Nat /\ Delay \in Nat /\ MaxTick \in Nat /\ MaxTick > 1
      BY Ages, TimeAssumption
    <2>3. state = "DECLINED" /\ tick = 0 /\ m.age = 0
      BY <2>1, <2>2 DEF Declines
    <2>. QED
      BY <1>3, <2>1, <2>2, <2>3 DEF Tick
  <1>4. CASE UNCHANGED vars
    BY <1>4 DEF vars, client, net, Declines
  <1>. QED
    BY <1>1, <1>2, <1>3, <1>4 DEF Next

LEMMA NextGranted == ASSUME Delay < 2, TypeOK, Declines, Granted, [Next]_vars PROVE Granted'
  <1>1. ASSUME NEW s \in Servers \cup {None}, DHCP_run(s) PROVE Granted'
    <2>1. /\ UNCHANGED bound
          /\ \A t \in Servers : \A m \in On(down'[t]) : m \in On(down[t])
          /\ state = "DECLINED" =>
                 tick >= 2 /\ \A t \in Servers : \A m \in On(down'[t]) : m.age < Delay
          /\ state' = "DECLINED" => state # "DECLINED" /\ tick' = 0
      BY <1>1, Running
    <2>. QED
      BY <2>1 DEF Granted
  <1>2. ASSUME NEW s \in Servers, Serve(s) \/ Refuse(s) \/ Lose(s) PROVE Granted'
    <2> SUFFICES ASSUME NEW t \in Servers, NEW m \in On(down'[t]), m.type = "ACK",
                        state = "DECLINED" => tick >= 2 /\ m.age < Delay
                 PROVE  bound'[t] + m.age >= Lease[t]
      BY <1>2, Serving DEF Granted, client
    <2>1. /\ m \in On(down[t]) \/ (m.age = 0 /\ bound'[t] = Lease[t])
          /\ bound'[t] \in {bound[t], Lease[t]}
      BY <1>2, Serving DEF Declines
    <2>2. Lease[t] \in Nat /\ bound[t] \in Nat
      BY ServerAssumption DEF TypeOK
    <2>3. CASE m \in On(down[t])
      <3>1. m.age \in Nat /\ bound[t] + m.age >= Lease[t]
        BY <2>3, Ages DEF Granted
      <3>. QED
        BY <2>1, <2>2, <3>1
    <2>. QED
      BY <2>1, <2>2, <2>3
  <1>3. CASE Tick
    <2> SUFFICES ASSUME NEW s \in Servers, NEW n \in On(down'[s]), n.type = "ACK",
                        state = "DECLINED" => tick' >= 2 /\ n.age < Delay
                 PROVE  bound'[s] + n.age >= Lease[s]
      BY <1>3 DEF Granted, Tick
    <2>1. PICK m \in On(down[s]) :
             n.type = m.type /\ n.age = IF m.age < Delay THEN m.age + 1 ELSE m.age
      <3>1. TypeOK /\ Tick
        BY <1>3
      <3>. QED
        BY ONLY <3>1, Passing, s \in Servers, n \in On(down'[s])
    <2>2. m.age \in Nat /\ Delay \in Nat /\ Lease[s] \in Nat /\ bound[s] \in Nat
      BY Ages, TimeAssumption, ServerAssumption DEF TypeOK
    <2>3. state # "DECLINED"
      BY <2>1, <2>2
    <2>4. m.age < Delay /\ n.age = m.age + 1
      BY <1>3, <2>1, <2>3, Passing
    <2>5. bound[s] + m.age >= Lease[s]
      BY <2>1, <2>3 DEF Granted
    <2>6. bound'[s] = IF bound[s] > 0 THEN bound[s] - 1 ELSE 0
      BY <1>3 DEF Tick
    <2>. QED
      BY <2>2, <2>4, <2>5, <2>6
  <1>4. CASE UNCHANGED vars
    BY <1>4 DEF vars, client, net, Granted
  <1>. QED
    BY <1>1, <1>2, <1>3, <1>4 DEF Next

LEMMA Patiently ==
    ASSUME NEW r \in 0 .. MaxRetry
    PROVE  /\ Patience(r) \in Nat
           /\ r < MaxRetry => Patience(r) = Patience(r + 1) + WaitTime + 1
           /\ r = MaxRetry => Patience(r) = 0
  <1>1. MaxRetry \in Nat /\ WaitTime \in Nat
    BY TimeAssumption
  <1>2. ASSUME NEW a \in Nat, NEW w \in Nat
        PROVE  a * w \in Nat /\ (a > 0 => a * w = (a - 1) * w + w) /\ 0 * w = 0
    OBVIOUS
  <1>3. MaxRetry - r \in Nat /\ WaitTime + 1 \in Nat /\ (MaxRetry - r) - 1 = MaxRetry - (r + 1)
    BY <1>1
  <1>. QED
    BY <1>1, <1>2, <1>3 DEF Patience

\* Half of any lease leaves enough of any other.
LEMMA LongEnough ==
    ASSUME TypeOK, NEW s \in Servers
    PROVE  lease \div 2 \in Nat /\ Lease[s] - lease \div 2 > 2 + Patience(0) + Delay
  <1>1. /\ Delay \in Nat /\ Patience(0) \in Nat /\ Patience(0) = MaxRetry * (WaitTime + 1)
        /\ \A t \in Servers : Lease[t] \in Nat
    BY Patiently, TimeAssumption, ServerAssumption DEF Patience
  <1>2. lease \in Nat /\ lease \div 2 \in Nat
    <2>1. lease \in Nat
      <3>1. lease \in {Lease[t] : t \in Servers} \cup {None}
        BY DEF TypeOK
      <3>. QED
        BY ONLY <1>1, <3>1 DEF None
    <2>2. ASSUME NEW n \in Nat PROVE n \div 2 \in Nat
      OBVIOUS
    <2>. QED
      BY <2>1, <2>2
  <1>3. PICK t \in Servers : lease \div 2 <= Lease[t] \div 2
    <2>1. CASE lease = None
      <3>1. 0 \div 2 = 0 /\ Lease[s] \div 2 >= 0
        BY <1>1
      <3>. QED
        BY <2>1, <3>1 DEF None
    <2>2. CASE lease # None
      <3>1. PICK t \in Servers : lease = Lease[t]
        BY <2>2 DEF TypeOK
      <3>. QED
        BY <1>2, <3>1
    <2>. QED
      BY <2>1, <2>2
  <1>4. Lease[s] - Lease[t] \div 2 > 2 + MaxRetry * (WaitTime + 1) + Delay
    BY LeaseAssumption
  <1>5. Lease[t] \div 2 \in Nat /\ Lease[s] \in Nat
    BY <1>1
  <1>. QED
    BY <1>1, <1>2, <1>3, <1>4, <1>5

LEMMA RunLeasing ==
    ASSUME TypeOK, Granted, Keeping, Remaining, NEW s \in Servers \cup {None}, DHCP_run(s)
    PROVE  Keeping' /\ Remaining'
  <1>0. /\ MaxRetry \in Nat \ {0} /\ WaitTime \in Nat /\ Delay \in Nat
        /\ tick \in Nat /\ retry \in 0 .. MaxRetry
        /\ \A t \in Servers : Lease[t] \in Nat /\ bound[t] \in Nat
    BY TimeAssumption, ServerAssumption DEF TypeOK
  <1>1. TypeOK' /\ ran' /\ bound' = bound
    BY Running
  <1>2. lease' \div 2 \in Nat
    <2>1. \A t \in Servers : Lease[t] \in Nat
      BY <1>0
    <2>2. lease' \in {Lease[t] : t \in Servers} \cup {None}
      BY <1>1 DEF TypeOK
    <2>3. lease' \in Nat
      BY <2>1, <2>2 DEF None
    <2>4. ASSUME NEW n \in Nat PROVE n \div 2 \in Nat
      OBVIOUS
    <2>. QED
      BY <2>3, <2>4
  <1>3. Late' = 0
    BY <1>1 DEF Late
  <1>4. ASSUME state' \notin {"LEASED", "REREQUEST"} PROVE Keeping' /\ Remaining'
    BY <1>4 DEF Keeping, Remaining
  <1>5. ASSUME parseDHCPMSG(s), Type(s) = "ACK", state \in {"REQUEST", "REREQUEST"}
        PROVE  s \in Servers /\ bound[s] >= Lease[s] - Delay
    <2>1. s \in Servers
      BY <1>5, Parsing
    <2>2. PICK m \in On(down[s]) : m.type = "ACK"
      BY <1>5, Parsing
    <2>3. m.age \in Nat /\ m.age <= Delay /\ bound[s] + m.age >= Lease[s]
      BY <1>5, <2>1, <2>2, Ages DEF Granted
    <2>. QED
      BY <1>0, <2>1, <2>3
  <1>6. CASE parseDHCPMSG(s) /\ (Leased(s) \/ Renewed(s))
    <2>1. /\ state' = "LEASED" /\ tick' = 0 /\ giver' = s /\ UNCHANGED ip
          /\ state \in {"REQUEST", "REREQUEST"} /\ Type(s) = "ACK"
      BY <1>6 DEF DHCP_run, Leased, Renewed, reset_DHCP_timeout
    <2>2. s \in Servers /\ bound[s] >= Lease[s] - Delay
      BY <1>5, <1>6, <2>1
    <2>3. chip' = ip'
      BY <1>6 DEF Leased, Renewed, Keeping
    <2>. QED
      BY <1>0, <1>1, <1>2, <1>3, <2>1, <2>2, <2>3 DEF Keeping, Remaining
  <1>7. CASE parseDHCPMSG(s) /\ Renew
    <2>1. giver' = giver /\ UNCHANGED <<ip, chip>> /\ state = "LEASED" /\ state' \in {"LEASED", "REREQUEST"}
      BY <1>7 DEF DHCP_run, Renew
    <2>2. CASE Renewal
      <3>1. state' = "REREQUEST" /\ tick' = 0 /\ retry' = 0
        BY <1>7, <2>2 DEF Renew, reset_DHCP_timeout
      <3>2. ASSUME giver = ip PROVE bound[ip] > 1 + Patience(0)
        <4>1. /\ ip \in Servers /\ tick <= lease \div 2 + Late /\ Late \in 0 .. 1
              /\ bound[ip] + tick >= Lease[ip] - Delay
          BY <2>1, <3>2 DEF Keeping, Remaining, Late
        <4>2. lease \div 2 \in Nat /\ Lease[ip] - lease \div 2 > 2 + Patience(0) + Delay
          BY <4>1, LongEnough
        <4>3. Patience(0) \in Nat /\ Lease[ip] \in Nat /\ bound[ip] \in Nat
          BY <1>0, <4>1, Patiently
        <4>. QED
          BY <1>0, <4>1, <4>2, <4>3
      <3>3. ASSUME giver = ip PROVE bound[ip] + 0 > 1 + Patience(0)
        BY <1>0, <2>1, <3>2, <3>3 DEF Keeping
      <3>4. Keeping'
        BY <1>0, <1>3, <2>1, <3>1 DEF Keeping
      <3>5. Remaining'
        BY <1>1, <2>1, <3>1, <3>3 DEF Remaining, Patience
      <3>. QED
        BY <3>4, <3>5
    <2>3. CASE ~Renewal
      <3>1. state' = "LEASED" /\ tick' = tick /\ tick <= lease' \div 2
        BY <1>0, <1>2, <1>7, <2>1, <2>3 DEF Renew, Renewal
      <3>. QED
        BY <1>1, <1>0, <1>2, <1>3, <2>1, <3>1 DEF Keeping, Remaining
    <2>. QED
      BY <2>2, <2>3
  <1>8. CASE parseDHCPMSG(s) /\ Waiting(s) /\ state = "REREQUEST" /\ retry < MaxRetry
    <2>1. giver' = giver /\ UNCHANGED <<ip, chip, state>> /\ check_DHCP_timeout
      BY <1>8 DEF DHCP_run, Waiting, check_DHCP_timeout
    <2>2. CASE tick > WaitTime
      <3>1. tick' = 0 /\ retry' = retry + 1
        BY <1>8, <2>1, <2>2 DEF check_DHCP_timeout
      <3>2. tick <= WaitTime + 1
        BY <1>0, <1>8 DEF Keeping, Late
      <3>3. Patience(retry) = Patience(retry + 1) + WaitTime + 1 /\ Patience(retry + 1) \in Nat
        BY <1>0, <1>8, Patiently
      <3>4. ASSUME giver = ip PROVE bound[ip] + 0 > 1 + Patience(retry + 1)
        <4>1. ip \in Servers /\ bound[ip] + tick > 1 + Patience(retry)
          BY <1>8, <3>4 DEF Keeping, Remaining
        <4>2. bound[ip] \in Nat
          BY <1>0, <4>1
        <4>. QED
          BY <1>0, <3>2, <3>3, <4>1, <4>2
      <3>5. Keeping'
        BY <1>0, <1>3, <1>8, <2>1, <3>1 DEF Keeping
      <3>6. Remaining'
        BY <1>1, <1>8, <2>1, <3>1, <3>4 DEF Remaining, Patience
      <3>. QED
        BY <3>5, <3>6
    <2>3. CASE ~(tick > WaitTime)
      <3>1. tick' = tick /\ retry' = retry /\ tick <= WaitTime
        BY <1>0, <1>8, <2>1, <2>3 DEF check_DHCP_timeout
      <3>2. Keeping'
        BY <1>0, <1>3, <1>8, <2>1, <3>1 DEF Keeping
      <3>3. Remaining'
        BY <1>1, <1>8, <2>1, <3>1 DEF Remaining, Patience
      <3>. QED
        BY <3>2, <3>3
    <2>. QED
      BY <2>2, <2>3
  <1>9. CASE parseDHCPMSG(s) /\ Waiting(s) /\ ~(state = "REREQUEST" /\ retry < MaxRetry)
    <2>1. state' \in {"INIT", "DISCOVER", "REQUEST"}
      BY <1>0, <1>9 DEF Waiting, check_DHCP_timeout
    <2>. QED
      BY <1>4, <2>1
  <1>10. CASE Restart \/ Offered(s) \/ Conflict(s) \/ Refused(s) \/ Declined
    BY <1>4, <1>10 DEF Restart, Offered, Conflict, Refused, Declined
  <1>. QED
    BY <1>6, <1>7, <1>8, <1>9, <1>10 DEF DHCP_run

LEMMA NextLeasing == ASSUME Delay < 2, Leasing, [Next]_vars PROVE Leasing'
  <1>0. TypeOK /\ Declines /\ Granted /\ Keeping /\ Remaining
    BY DEF Leasing
  <1>1. TypeOK' /\ Declines' /\ Granted'
    BY <1>0, NextType, NextDeclines, NextGranted
  <1>2. ASSUME NEW s \in Servers \cup {None}, DHCP_run(s) PROVE Keeping' /\ Remaining'
    BY <1>0, <1>2, RunLeasing
  <1>3. ASSUME NEW s \in Servers, Serve(s) \/ Refuse(s) \/ Lose(s) PROVE Keeping' /\ Remaining'
    <2>1. UNCHANGED <<client, giver, ran, sent>>
      BY <1>0, <1>3, Serving
    <2>2. Keeping'
      BY <1>0, <2>1 DEF Keeping, Late, client
    <2>3. ASSUME giver = ip, state \in {"LEASED", "REREQUEST"}
          PROVE  ip \in Servers /\ bound'[ip] \in {bound[ip], Lease[ip]}
      BY <1>0, <1>3, <2>3, Serving DEF Declines, Keeping
    <2>4. ASSUME giver = ip, state \in {"LEASED", "REREQUEST"}
          PROVE  /\ state = "LEASED" => bound'[ip] + tick >= Lease[ip] - Delay
                 /\ state = "REREQUEST" => bound'[ip] + tick > 1 + Patience(retry)
      <3>1. /\ tick \in Nat /\ Delay \in Nat /\ retry \in 0 .. MaxRetry /\ MaxRetry \in Nat
            /\ Lease[ip] \in Nat /\ lease \div 2 \in Nat
            /\ Lease[ip] - lease \div 2 > 2 + Patience(0) + Delay
        <4>1. ip \in Servers
          BY <2>3, <2>4
        <4>2. Lease[ip] \in Nat
          BY <4>1, ServerAssumption
        <4>3. lease \div 2 \in Nat /\ Lease[ip] - lease \div 2 > 2 + Patience(0) + Delay
          BY <1>0, <4>1, LongEnough
        <4>. QED
          BY <1>0, <4>2, <4>3, TimeAssumption DEF TypeOK
      <3>2. Patience(retry) \in Nat /\ Patience(0) \in Nat /\ Patience(retry) <= Patience(0)
        <4>1. ASSUME NEW a \in Nat, NEW r \in 0 .. a, NEW w \in Nat
              PROVE  (a - r) * w <= (a - 0) * w
          <5>1. a - r \in Nat /\ a = (a - r) + r /\ r * w \in Nat /\ a * w = (a - r) * w + r * w
            OBVIOUS
          <5>2. (a - r) * w \in Nat /\ (a - 0) * w = a * w
            BY <5>1
          <5>. QED
            BY <5>1, <5>2
        <4>2. WaitTime + 1 \in Nat
          BY TimeAssumption
        <4>. QED
          BY <3>1, <4>1, <4>2, Patiently DEF Patience
      <3>3. CASE bound'[ip] = bound[ip]
        BY <1>0, <2>4, <3>3 DEF Remaining
      <3>4. CASE bound'[ip] = Lease[ip]
        BY <3>1, <3>2, <3>4
      <3>. QED
        BY <2>3, <2>4, <3>3, <3>4
    <2>5. Remaining'
      BY <2>1, <2>4 DEF Remaining, client, Patience
    <2>. QED
      BY <2>2, <2>5
  <1>4. ASSUME Tick PROVE Keeping' /\ Remaining'
    <2>0. /\ UNCHANGED <<state, retry, ip, lease, chip, giver>> /\ ~ran'
          /\ tick' = (IF tick < MaxTick THEN tick + 1 ELSE tick)
          /\ bound' = [s \in Servers |-> IF bound[s] > 0 THEN bound[s] - 1 ELSE 0]
      BY <1>4 DEF Tick
    <2>1. Late' = 1
      BY <2>0 DEF Late
    <2>2. CASE state \notin {"LEASED", "REREQUEST"}
      BY <2>0, <2>2 DEF Keeping, Remaining
    <2>3. CASE state \in {"LEASED", "REREQUEST"}
      <3>1. /\ tick \in Nat /\ Delay \in Nat /\ retry \in 0 .. MaxRetry /\ MaxRetry \in Nat
            /\ WaitTime \in Nat /\ MaxTick \in Nat /\ MaxTick > WaitTime
            /\ \A t \in Servers : Lease[t] \in Nat /\ bound[t] \in Nat /\ MaxTick > Lease[t]
        BY <1>0, TimeAssumption, ServerAssumption DEF TypeOK
      <3>2. Late = 0
        BY <1>4, <2>3 DEF Tick, Late
      <3>3. giver \in Servers /\ chip = ip
        BY <1>0, <2>3 DEF Keeping
      <3>4. /\ lease \div 2 \in Nat /\ Lease[giver] - lease \div 2 > 2 + Patience(0) + Delay
            /\ Patience(0) \in Nat /\ Lease[giver] \in Nat /\ MaxTick > Lease[giver]
        BY <1>0, <3>1, <3>3, LongEnough, Patiently
      <3>5. /\ state = "LEASED" => tick <= lease \div 2
            /\ state = "REREQUEST" => tick <= IF retry < MaxRetry THEN WaitTime ELSE 0
        BY <1>0, <2>3, <3>1, <3>2, <3>4 DEF Keeping
      <3>6. tick < MaxTick /\ tick' = tick + 1
        BY <2>0, <2>3, <3>1, <3>4, <3>5
      <3>7. Keeping'
        BY <2>0, <2>1, <2>3, <3>1, <3>3, <3>4, <3>5, <3>6 DEF Keeping
      <3>8. ASSUME giver = ip
            PROVE  /\ state = "LEASED" => bound'[ip] + tick' >= Lease[ip] - Delay
                   /\ state = "REREQUEST" => bound'[ip] + tick' > 1 + Patience(retry)
        <4>1. /\ state = "LEASED" => bound[ip] + tick >= Lease[ip] - Delay
              /\ state = "REREQUEST" => bound[ip] + tick > 1 + Patience(retry)
          BY <1>0, <3>8 DEF Remaining
        <4>2. bound[ip] \in Nat /\ bound'[ip] \in Nat /\ bound'[ip] >= bound[ip] - 1
          BY <2>0, <3>1, <3>3, <3>8
        <4>3. Patience(retry) \in Nat /\ Lease[ip] \in Nat
          BY <3>1, <3>3, <3>8, Patiently
        <4>. QED
          BY <3>1, <3>6, <4>1, <4>2, <4>3
      <3>9. Remaining'
        BY <2>0, <3>8 DEF Remaining, Patience
      <3>. QED
        BY <3>7, <3>9
    <2>. QED
      BY <2>2, <2>3
  <1>5. ASSUME UNCHANGED vars PROVE Keeping' /\ Remaining'
    BY <1>0, <1>5 DEF vars, client, Keeping, Remaining, Late, Patience
  <1>. QED
    BY <1>1, <1>2, <1>3, <1>4, <1>5 DEF Next, Leasing

LEMMA Held == ASSUME Leasing PROVE LeaseHeld
  <1> SUFFICES ASSUME state \in {"LEASED", "REREQUEST"}, giver = ip
               PROVE  chip = ip /\ bound[ip] > 0
    BY DEF LeaseHeld
  <1>0. TypeOK /\ Keeping /\ Remaining
    BY DEF Leasing
  <1>1. ip \in Servers /\ chip = ip /\ Late \in 0 .. 1
    BY <1>0 DEF Keeping, Late
  <1>2. /\ tick \in Nat /\ Delay \in Nat /\ retry \in 0 .. MaxRetry /\ MaxRetry \in Nat
        /\ WaitTime \in Nat /\ Lease[ip] \in Nat /\ bound[ip] \in Nat
        /\ lease \div 2 \in Nat /\ Lease[ip] - lease \div 2 > 2 + Patience(0) + Delay
        /\ Patience(0) \in Nat /\ Patience(retry) \in Nat
        /\ retry < MaxRetry => Patience(retry + 1) \in Nat /\ Patience(retry) = Patience(retry + 1) + WaitTime + 1
    <2>1. /\ tick \in Nat /\ Delay \in Nat /\ retry \in 0 .. MaxRetry /\ MaxRetry \in Nat
          /\ WaitTime \in Nat /\ bound[ip] \in Nat
      BY <1>0, <1>1, TimeAssumption DEF TypeOK
    <2>2. Lease[ip] \in Nat
      BY <1>1, ServerAssumption
    <2>3. lease \div 2 \in Nat /\ Lease[ip] - lease \div 2 > 2 + Patience(0) + Delay
      BY <1>0, <1>1, LongEnough
    <2>4. Patience(0) \in Nat /\ Patience(retry) \in Nat
      BY <2>1, Patiently
    <2>5. retry < MaxRetry => Patience(retry + 1) \in Nat /\ Patience(retry) = Patience(retry + 1) + WaitTime + 1
      BY <2>1, Patiently
    <2>. QED
      BY <2>1, <2>2, <2>3, <2>4, <2>5
  <1>3. CASE state = "LEASED"
    BY <1>0, <1>1, <1>2, <1>3 DEF Keeping, Remaining
  <1>4. CASE state = "REREQUEST" /\ retry < MaxRetry
    <2>1. tick <= Late + WaitTime /\ bound[ip] + tick > 1 + Patience(retry)
      BY <1>0, <1>4 DEF Keeping, Remaining
    <2>. QED
      BY <1>1, <1>2, <1>4, <2>1
  <1>5. CASE state = "REREQUEST" /\ ~(retry < MaxRetry)
    <2>1. tick <= Late + 0 /\ bound[ip] + tick > 1 + Patience(retry)
      BY <1>0, <1>5 DEF Keeping, Remaining
    <2>. QED
      BY <1>1, <1>2, <2>1
  <1>. QED
    BY <1>3, <1>4, <1>5

\* While the client says it has a lease, so does the server.  (Delay < 2: what
\* declines an address comes before the client, after two seconds, asks anew.)
THEOREM NeverExpired == ASSUME Delay < 2 PROVE Spec => []LeaseHeld
  <1>1. Init => Leasing
    <2>1. Init => Declines /\ Granted
      BY DEF Init, Declines, Granted, On
    <2>. QED
      BY <2>1, InitType DEF Init, Leasing, Keeping, Remaining
  <1>2. Leasing /\ [Next]_vars => Leasing'
    BY NextLeasing
  <1>3. Leasing => LeaseHeld
    BY Held
  <1>. QED
    BY <1>1, <1>2, <1>3, PTL DEF Spec
=============================================================================
