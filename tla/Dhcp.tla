-------------------------------- MODULE Dhcp --------------------------------
(***************************************************************************)
(* The DHCP client of the w5500 demo (dhcp.c) under its main loop, with    *)
(* servers and a network that loses and delays messages.                   *)
(*                                                                         *)
(* DHCP_run is called again and again; each call reads at most one message *)
(* and takes one step.  DHCP_time_handler counts seconds from a timer.     *)
(* The client does not look at the transaction number of an answer, and    *)
(* takes lease time and server from every message it reads, in any state.  *)
(*                                                                         *)
(* A server has one address to give, which is named like it.  Messages     *)
(* between a server and the client keep their order.                       *)
(***************************************************************************)
EXTENDS Integers, Sequences

CONSTANTS Servers,
          Lease,        \* the lease time each server gives
          WaitTime,     \* DHCP_WAIT_TIME
          MaxRetry,     \* MAX_DHCP_RETRY
          Delay,        \* bound: seconds a message is under way
          MaxFlight,    \* bound: messages under way, each way; more are lost
          MaxTick       \* bound: seconds counted, more than any wait

None == 0
ASSUME ServerAssumption == Servers \subseteq Nat \ {None} /\ Lease \in [Servers -> Nat]
ASSUME TimeAssumption == /\ {WaitTime, MaxRetry} \subseteq Nat \ {0}
                         /\ {Delay, MaxFlight, MaxTick} \subseteq Nat
                         /\ MaxTick > 1 /\ MaxTick > WaitTime
                         /\ \A s \in Servers : MaxTick > Lease[s]

\* what is known of leases: the time from half of one to its end is enough
\* for the retries, the last message and the answer that came late
ASSUME LeaseAssumption ==
    \A s, t \in Servers : Lease[s] - Lease[t] \div 2 > 2 + MaxRetry * (WaitTime + 1) + Delay

VARIABLES
    state,      \* dhcp_state; "DECLINED": in check_DHCP_leasedIP's wait
    tick,       \* dhcp_tick_1s
    retry,      \* dhcp_retry_count
    ip,         \* DHCP_allocated_ip
    lease,      \* dhcp_lease_time
    sip,        \* DHCP_SIP
    chip,       \* SIPR, the address the chip uses
    giver,      \* whose ACK the client has taken last
    bound,      \* per server: seconds its address is still the client's
    up, down,   \* messages on their way to and from each server, with their age
    ran,        \* DHCP_run was called in this second
    sent        \* messages sent in this second, but for those that answer an OFFER or ACK

client == <<state, tick, retry, ip, lease, sip, chip>>
net == <<up, down>>
vars == <<client, giver, bound, net, ran, sent>>

Messages == [type : {"DISCOVER", "REQUEST", "RENEW", "DECLINE"}, ip : Servers \cup {None},
             sip : Servers \cup {None}, age : 0 .. Delay]
Answers == [type : {"OFFER", "ACK", "NAK"}, age : 0 .. Delay]

TypeOK == /\ state \in {"INIT", "DISCOVER", "REQUEST", "LEASED", "REREQUEST", "DECLINED"}
          /\ tick \in 0 .. MaxTick /\ retry \in 0 .. MaxRetry
          /\ {ip, sip, chip, giver} \subseteq Servers \cup {None}
          /\ lease \in {Lease[s] : s \in Servers} \cup {None}
          /\ bound \in [Servers -> Nat]
          /\ up \in [Servers -> Seq(Messages)] /\ down \in [Servers -> Seq(Answers)]
          /\ ran \in BOOLEAN /\ sent \in Nat

\* DHCP_init
Init == /\ state = "INIT" /\ tick = 0 /\ retry = 0
        /\ ip = None /\ lease = None /\ sip = None /\ chip = None /\ giver = None
        /\ bound = [s \in Servers |-> 0]
        /\ up = [s \in Servers |-> <<>>] /\ down = [s \in Servers |-> <<>>]
        /\ ran = FALSE /\ sent = 0

Put(channel, m) == IF Len(channel) < MaxFlight THEN Append(channel, m) ELSE channel

\* sendto of a message: to the limited broadcast address, or to one server
Message(type) == [type |-> type, ip |-> ip', sip |-> sip', age |-> 0]
Broadcast(type) == up' = [s \in Servers |-> Put(up[s], Message(type))]
Unicast(type) == up' = [s \in Servers |-> IF s = sip' THEN Put(up[s], Message(type)) ELSE up[s]]
Silent == UNCHANGED up
Retry == /\ IF state = "REREQUEST" THEN Unicast("RENEW")
            ELSE Broadcast(IF state = "DISCOVER" THEN "DISCOVER" ELSE "REQUEST")
         /\ sent' = sent + 1

reset_DHCP_timeout == tick' = 0 /\ retry' = 0

-----------------------------------------------------------------------------
(***************************************************************************)
(* Plausible bugs.                                                         *)
(***************************************************************************)
\* renewed at the end of the lease
Renewal_Late == tick > lease'

\* a timeout that does not begin anew
check_DHCP_timeout_NoReset ==
    IF retry < MaxRetry
      THEN /\ IF tick > WaitTime
                THEN Retry /\ UNCHANGED <<tick, retry>>
                ELSE UNCHANGED <<tick, retry, sent>> /\ Silent
           /\ UNCHANGED <<state, chip>>
      ELSE /\ state' = "INIT" /\ chip' = None
           /\ reset_DHCP_timeout /\ Silent /\ UNCHANGED sent

-----------------------------------------------------------------------------
(***************************************************************************)
(* The client.                                                             *)
(***************************************************************************)
\* parseDHCPMSG: the oldest message from some server, or none that has come
parseDHCPMSG(s) == IF s = None THEN UNCHANGED <<lease, sip, down>>
                   ELSE /\ down[s] # <<>>
                        /\ down' = [down EXCEPT ![s] = Tail(@)]
                        /\ sip' = s
                        /\ lease' = IF Head(down[s]).type = "NAK" THEN lease ELSE Lease[s]
Type(s) == IF s = None THEN "none" ELSE Head(down[s]).type

\* check_DHCP_timeout.  After the last retry it gives up at the next call,
\* without waiting for the answer; when it does so in DISCOVER, main calls
\* DHCP_init, which takes the address off the chip.
check_DHCP_timeout ==
    IF retry < MaxRetry
      THEN /\ IF tick > WaitTime
                THEN Retry /\ tick' = 0 /\ retry' = retry + 1
                ELSE UNCHANGED <<tick, retry, sent>> /\ Silent
           /\ UNCHANGED <<state, chip>>
      ELSE /\ IF state = "DISCOVER"
                THEN state' = "INIT" /\ chip' = None /\ Silent /\ UNCHANGED sent
                ELSE state' = "DISCOVER" /\ Broadcast("DISCOVER") /\ sent' = sent + 1 /\ UNCHANGED chip
           /\ reset_DHCP_timeout

Restart == /\ state = "INIT"
           /\ ip' = None
           /\ Broadcast("DISCOVER") /\ sent' = sent + 1
           /\ state' = "DISCOVER"
           /\ UNCHANGED <<tick, retry, chip>>

Offered(s) == /\ state = "DISCOVER" /\ Type(s) = "OFFER"
              /\ ip' = s
              /\ Broadcast("REQUEST")
              /\ state' = "REQUEST"
              /\ UNCHANGED <<tick, retry, chip, sent>>

\* check_DHCP_leasedIP finds nobody else with the address: it goes to the chip
Leased(s) == /\ state = "REQUEST" /\ Type(s) = "ACK"
             /\ chip' = ip
             /\ state' = "LEASED"
             /\ reset_DHCP_timeout /\ Silent
             /\ UNCHANGED <<ip, sent>>

\* ... or somebody: decline it, and wait two seconds (tick counts them)
Conflict(s) == /\ state = "REQUEST" /\ Type(s) = "ACK"
               /\ UNCHANGED <<retry, ip, chip, sent>>
               /\ Broadcast("DECLINE")
               /\ state' = "DECLINED"
               /\ tick' = 0

\* dhcp_ip_conflict resets the chip: what is in the socket is gone, that is
\* the first messages of each server, the late ones among them
Unread(channel) == {SubSeq(channel, n + 1, Len(channel)) :
                    n \in {k \in 0 .. Len(channel) : \A i \in k + 1 .. Len(channel) : channel[i].age < Delay}}
Declined == /\ state = "DECLINED" /\ tick >= 2
            /\ chip' = None
            /\ down' \in {d \in [Servers -> UNION {Unread(down[s]) : s \in Servers}] :
                          \A s \in Servers : d[s] \in Unread(down[s])}
            /\ state' = "INIT"
            /\ reset_DHCP_timeout /\ Silent
            /\ UNCHANGED <<ip, sent, lease, sip>>

Refused(s) == /\ state \in {"REQUEST", "REREQUEST"} /\ Type(s) = "NAK"
              /\ state' = "DISCOVER"
              /\ reset_DHCP_timeout /\ Silent
              /\ UNCHANGED <<ip, chip, sent>>

\* half the lease is over, by the lease time of the message just read
Renewal == tick > lease' \div 2
Renew == /\ state = "LEASED"
         /\ UNCHANGED <<ip, chip>>
         /\ IF Renewal THEN /\ Unicast("RENEW") /\ sent' = sent + 1
                            /\ state' = "REREQUEST"
                            /\ reset_DHCP_timeout
                       ELSE UNCHANGED <<state, tick, retry, sent>> /\ Silent

\* yiaddr is not read: the address stays what it was
Renewed(s) == /\ state = "REREQUEST" /\ Type(s) = "ACK"
              /\ state' = "LEASED"
              /\ reset_DHCP_timeout /\ Silent
              /\ UNCHANGED <<ip, chip, sent>>

\* a plausible bug: in DISCOVER nothing is done without an answer
Waiting_ForOffer(s) == \/ /\ state = "DISCOVER" /\ Type(s) # "OFFER"
                          /\ UNCHANGED <<state, tick, retry, ip, chip, up, sent>>
                       \/ /\ state \in {"REQUEST", "REREQUEST"} /\ Type(s) \notin {"ACK", "NAK"}
                          /\ UNCHANGED ip
                          /\ check_DHCP_timeout

Waiting(s) == /\ \/ state = "DISCOVER" /\ Type(s) # "OFFER"
                 \/ state \in {"REQUEST", "REREQUEST"} /\ Type(s) \notin {"ACK", "NAK"}
              /\ UNCHANGED ip
              /\ check_DHCP_timeout

DHCP_run(s) == /\ \/ /\ parseDHCPMSG(s)
                     /\ \/ Restart \/ Offered(s) \/ Leased(s) \/ Conflict(s) \/ Refused(s)
                        \/ Renew \/ Renewed(s) \/ Waiting(s)
                  \/ s = None /\ Declined
               /\ giver' = IF state' = "LEASED" /\ state # "LEASED" THEN s ELSE giver
               /\ ran' = TRUE
               /\ UNCHANGED bound

-----------------------------------------------------------------------------
(***************************************************************************)
(* Servers, network and time.                                              *)
(***************************************************************************)
Reply(s, type) == down' = [down EXCEPT ![s] = Put(@, [type |-> type, age |-> 0])]

\* a server grants its own address, and refuses other requests made to it
Serve(s) ==
    LET m == Head(up[s]) IN
    /\ up[s] # <<>>
    /\ up' = [up EXCEPT ![s] = Tail(@)]
    /\ CASE m.type = "DISCOVER" -> Reply(s, "OFFER") /\ UNCHANGED bound
         [] m.type = "DECLINE"  -> /\ bound' = IF m.ip = s THEN [bound EXCEPT ![s] = 0] ELSE bound
                                   /\ UNCHANGED down
         [] OTHER -> IF m.sip # s THEN UNCHANGED <<down, bound>>
                     ELSE IF m.ip = s THEN Reply(s, "ACK") /\ bound' = [bound EXCEPT ![s] = Lease[s]]
                     ELSE Reply(s, "NAK") /\ UNCHANGED bound
    /\ UNCHANGED <<client, giver, ran, sent>>

\* ... or to give its own, when the client does not have it
Refuse(s) == /\ up[s] # <<>> /\ Head(up[s]).type \in {"REQUEST", "RENEW"} /\ Head(up[s]).sip = s
             /\ bound[s] = 0
             /\ up' = [up EXCEPT ![s] = Tail(@)]
             /\ Reply(s, "NAK")
             /\ UNCHANGED <<client, giver, bound, ran, sent>>

Lose(s) == /\ \/ up[s] # <<>> /\ up' = [up EXCEPT ![s] = Tail(@)] /\ UNCHANGED down
              \/ down[s] # <<>> /\ down' = [down EXCEPT ![s] = Tail(@)] /\ UNCHANGED up
           /\ UNCHANGED <<client, giver, bound, ran, sent>>

Older(channel) == [i \in DOMAIN channel |-> [channel[i] EXCEPT !.age = IF @ < Delay THEN @ + 1 ELSE @]]
Old(channel) == \E i \in DOMAIN channel : channel[i].age >= Delay

\* one second: DHCP_run was called in it, and nothing is too long under way;
\* what comes while the client waits stays in the socket
Tick == /\ ran \/ state = "DECLINED"
        /\ \A s \in Servers : ~Old(up[s]) /\ (state = "DECLINED" \/ ~Old(down[s]))
        /\ tick' = IF tick < MaxTick THEN tick + 1 ELSE tick
        /\ bound' = [s \in Servers |-> IF bound[s] > 0 THEN bound[s] - 1 ELSE 0]
        /\ up' = [s \in Servers |-> Older(up[s])]
        /\ down' = [s \in Servers |-> Older(down[s])]
        /\ ran' = FALSE /\ sent' = 0
        /\ UNCHANGED <<state, retry, ip, lease, sip, chip, giver>>

-----------------------------------------------------------------------------
Next == \/ \E s \in Servers \cup {None} : DHCP_run(s)
        \/ \E s \in Servers : Serve(s) \/ Refuse(s) \/ Lose(s)
        \/ Tick

Spec == Init /\ [][Next]_vars

\* The main loop and the clock go on, what has come is read, servers answer.
Fairness == /\ WF_vars(DHCP_run(None)) /\ WF_vars(Tick)
            /\ WF_vars(\E s \in Servers : DHCP_run(s))
            /\ \A s \in Servers : WF_vars(Serve(s))

FairSpec == Spec /\ Fairness

-----------------------------------------------------------------------------
(***************************************************************************)
(* Properties.                                                             *)
(***************************************************************************)
\* While the client says it has a lease, the server says so, too: renewal and
\* its retries come early enough whatever is lost, and whatever lease time and
\* server another server's late messages have put in.  (giver # ip: it took
\* another server's ACK for an answer to its own request.)
LeaseHeld == state \in {"LEASED", "REREQUEST"} /\ giver = ip => chip = ip /\ bound[ip] > 0

\* However many answers come, and however stale, the client sends at most two
\* messages in a second that nobody asked for: it never floods the network.
Paced == sent <= 2

\* A client always gets a lease again, unless messages are lost or the address
\* is refused or found taken for ever.  (A request's answer must be faster than
\* the timeout: the last retry is not waited for.)
Trouble == \E s \in Servers : Lose(s) \/ Refuse(s) \/ (DHCP_run(s) /\ Conflict(s))
LeasedAgain == []<>(state = "LEASED") \/ []<><<Trouble>>_vars
=============================================================================
