----------------------------- MODULE WifiSetup ------------------------------
(***************************************************************************)
(* libnetlink as the two programs use it.  main lists the wifi cards and   *)
(* puts one after the other into monitor mode (setup_wfb); on the ground   *)
(* video_init lists the interfaces, still in main; then main forks the     *)
(* services, several of which list them again, at the same time.           *)
(* nl_seq_id is never counted up, so a reply is told from another only by  *)
(* its place in the queue of the socket; and the route socket, once main   *)
(* has opened it, is inherited by every service.                           *)
(*                                                                         *)
(* A datagram of the kernel is "family", "ack", "error", "links" (a part   *)
(* of a list), "last" (a part with NLMSG_DONE behind it) or "done".        *)
(***************************************************************************)
EXTENDS Integers, Sequences, FiniteSets

CONSTANTS
  NumCards,     (* wifi cards                                              *)
  Services,     (* services that list interfaces                           *)
  Programs,     (* "air" and "ground"                                      *)
  Parts,        (* datagrams a list of links takes                         *)
  Kernels,      (* "joined": NLMSG_DONE comes with the last part of a list; *)
                (* "apart": it comes in a datagram of its own              *)
  Residues,     (* what nlmsg_type may be found behind the end of a list   *)
                (* in local_buf, where an earlier datagram has left it     *)
  MaxRefused,   (* bound on the requests the kernel refuses                *)
  MaxSlips      (* bound on recvmsg failing and lists taken as ended early *)

SetupAssumption ==
  /\ Programs \subseteq {"air", "ground"} /\ Programs # {}
  /\ NumCards \in Nat /\ Parts \in Nat \ {0}
  /\ Kernels \subseteq {"joined", "apart"} /\ Kernels # {}
  /\ Residues \subseteq {"other", "done", "ack"} /\ "other" \in Residues
  /\ MaxRefused \in Nat /\ MaxSlips \in Nat
  /\ Services \cap {"gen", "route", "main"} = {}

VARIABLES
  program,  (* the program that runs                                       *)
  kernel,   (* the kind of kernel                                          *)
  queue,    (* queue[s]: datagrams waiting at socket s                     *)
  dump,     (* dump[s]: datagrams of a list the kernel has yet to queue    *)
  opened,   (* sockets of main that are open                               *)
  step,     (* what main does next, "over" after setup_wfb                 *)
  card,     (* setup_wfb: i                                                *)
  count,    (* what nl_get_wlan_list has found, wlan_count                 *)
  svc,      (* svc[p]: "none", "ask", "collect" or "over", p a service or  *)
            (* main, for its own list                                      *)
  found,    (* found[p]: what nl_link_list has found, or -1                *)
  (* History: *)
  asked,    (* asked[s]: for each confirmed request of main, if refused    *)
  slips     (* slips[s]: replies on s not read where they were due         *)

nl   == <<program, kernel, queue, dump, opened>>
mainVars == <<step, card, count, asked, slips>>
vars == <<nl, mainVars, svc, found>>

Sockets == {"gen", "route"} \cup Services
Listers == Services \cup {"main"}
Of(op)  == IF op \in {"monitor", "freq"} THEN "gen" ELSE "route"

Init ==
  /\ program \in Programs
  /\ kernel \in Kernels
  /\ queue = [s \in Sockets |-> <<>>] /\ dump = [s \in Sockets |-> 0]
  /\ opened = {}
  /\ step = "family" /\ card = 0 /\ count = 0
  /\ svc = [p \in Listers |-> "none"] /\ found = [p \in Listers |-> 0]
  /\ asked = [s \in {"gen", "route"} |-> <<>>]
  /\ slips = [s \in {"gen", "route"} |-> 0]

Refused == {r \in {"gen", "route"} \X (1 .. 4 * NumCards) :
              r[2] <= Len(asked[r[1]]) /\ asked[r[1]][r[2]]}
Slipped == slips["gen"] + slips["route"]

-----------------------------------------------------------------------------
(* The kernel.  A list: its first part is queued at once, the next one     *)
(* when a datagram is read; a second list meanwhile is refused.            *)
Part(left) == IF kernel = "joined"
              THEN IF left = 1 THEN "last" ELSE "links"
              ELSE IF left = 1 THEN "done" ELSE "links"

StartList(s, parts) ==
  LET left == parts + (IF kernel = "joined" THEN 0 ELSE 1)
  IN  IF dump[s] > 0
      THEN queue' = [queue EXCEPT ![s] = Append(@, "error")] /\ UNCHANGED dump
      ELSE /\ queue' = [queue EXCEPT ![s] = Append(@, Part(left))]
           /\ dump' = [dump EXCEPT ![s] = left - 1]

(* recvmsg takes the first datagram.                                       *)
Receive(s) ==
  /\ queue[s] # <<>>
  /\ IF dump[s] > 0
     THEN /\ queue' = [queue EXCEPT ![s] = Append(Tail(@), Part(dump[s]))]
          /\ dump' = [dump EXCEPT ![s] = @ - 1]
     ELSE queue' = [queue EXCEPT ![s] = Tail(@)] /\ UNCHANGED dump

-----------------------------------------------------------------------------
(* nl_get_family reads the answer, and leaves its ACK.  Without nl80211    *)
(* there is no list and nothing is set up.                                 *)
GetFamily ==
  /\ step = "family"
  /\ opened' = opened \cup {"gen"}
  /\ \/ /\ queue' = [queue EXCEPT !["gen"] = <<"ack">>]
        /\ step' = "list" /\ UNCHANGED count
     \/ /\ step' = "over" /\ count' = -1 /\ UNCHANGED queue
  /\ UNCHANGED <<program, kernel, dump, card, asked, slips, svc, found>>

AskCards ==
  /\ step = "list"
  /\ StartList("gen", 1)
  /\ step' = "collect"
  /\ UNCHANGED <<program, kernel, opened, card, count, asked, slips, svc, found>>

(* Mutants of Collect: DONE is passed over; one datagram is read.          *)
CollectPastDone ==
  /\ step = "collect"
  /\ Receive("gen")
  /\ CASE Head(queue["gen"]) = "links" -> count' = NumCards /\ UNCHANGED step
       [] Head(queue["gen"]) = "last"  -> count' = NumCards /\ step' = "next"
       [] OTHER                        -> count' = 0 /\ UNCHANGED step
  /\ UNCHANGED <<program, kernel, opened, card, asked, slips, svc, found>>
CollectOnce ==
  /\ step = "collect"
  /\ Receive("gen")
  /\ IF Head(queue["gen"]) = "ack" THEN UNCHANGED <<step, count>>
     ELSE count' = NumCards /\ step' = "next"
  /\ UNCHANGED <<program, kernel, opened, card, asked, slips, svc, found>>

(* nl_get_wlan_list reads on until NLMSG_DONE, over the ACK that was left, *)
(* which sets the count to 0.  After a part of the list it looks at the    *)
(* type of a message that is not there.                                    *)
Collect ==
  /\ step = "collect"
  /\ Receive("gen")
  /\ LET m == Head(queue["gen"])
     IN  \/ /\ m = "ack"
            /\ count' = 0 /\ UNCHANGED <<step, slips>>
         \/ /\ m \in {"links", "last"}
            /\ \E behind \in IF m = "last" THEN {"done"} ELSE Residues :
                 /\ count' = IF behind = "ack" THEN 0 ELSE NumCards
                 /\ step' = IF behind = "done" THEN "next" ELSE "collect"
                 /\ IF behind = "done" /\ m # "last"
                    THEN Slipped < MaxSlips /\ slips' = [slips EXCEPT !["gen"] = @ + 1]
                    ELSE UNCHANGED slips
         \/ /\ m = "done"
            /\ step' = "next" /\ UNCHANGED <<count, slips>>
  /\ UNCHANGED <<program, kernel, opened, card, asked, svc, found>>

After(op) == CASE op = "down" -> "monitor" [] op = "monitor" -> "up"
               [] op = "up" -> "freq"      [] op = "freq" -> "next"

(* setup_wfb goes on with the next card, or ends.                          *)
NextCard ==
  /\ step = "next"
  /\ IF card < count THEN step' = "down" /\ card' = card + 1
                     ELSE step' = "over" /\ UNCHANGED card
  /\ UNCHANGED <<nl, count, asked, slips, svc, found>>

(* The socket of the request cannot be bound: init_netlink returns 1, and  *)
(* sendmsg fails on that.                                                  *)
Unbound(op) ==
  /\ step = op /\ Of(op) \notin opened
  /\ step' = "over"
  /\ UNCHANGED <<nl, card, count, asked, slips, svc, found>>

(* A request for the card and read_netlink_recv: the first datagram in the *)
(* queue is taken for the reply, an NLMSG_DONE too; when recvmsg fails the *)
(* result is 0 as if it had been confirmed.  The first failure ends it all.*)
Request(op) ==
  /\ step = op
  /\ opened' = opened \cup {Of(op)}
  /\ \E refused \in IF Cardinality(Refused) < MaxRefused THEN BOOLEAN ELSE {FALSE} :
       LET reply == IF refused THEN "error" ELSE "ack"
           all   == Append(queue[Of(op)], reply)
       IN  /\ asked' = [asked EXCEPT ![Of(op)] = Append(@, refused)]
           /\ \/ /\ queue' = [queue EXCEPT ![Of(op)] = Tail(all)]
                 /\ step' = IF Head(all) = "error" THEN "over" ELSE After(op)
                 /\ UNCHANGED slips
              \/ /\ Slipped < MaxSlips
                 /\ slips' = [slips EXCEPT ![Of(op)] = @ + 1]
                 /\ queue' = [queue EXCEPT ![Of(op)] = all]
                 /\ step' = After(op)
  /\ UNCHANGED <<program, kernel, dump, card, count, svc, found>>

(* The requests for a card, each with an ACK asked for.                    *)
LinkDown   == Request("down")      (* nl_link_down                         *)
SetMonitor == Request("monitor")   (* nl_wlan_set_monitor                  *)
LinkUp     == Request("up")        (* nl_link_up                           *)
SetFreq    == Request("freq")      (* nl_wlan_set_freq                     *)

Setup ==
  \/ GetFamily \/ AskCards \/ Collect \/ NextCard
  \/ LinkDown \/ SetMonitor \/ LinkUp \/ SetFreq
  \/ \E op \in {"down", "monitor", "up", "freq"} : Unbound(op)

-----------------------------------------------------------------------------
(* video_init: main lists the interfaces itself, whatever came of setup.   *)
OwnList ==
  /\ program = "ground" /\ step = "over" /\ svc["main"] = "none"
  /\ svc' = [svc EXCEPT !["main"] = "ask"]
  /\ UNCHANGED <<nl, mainVars, found>>

(* Then the services are started.                                          *)
Fork ==
  /\ step = "over" /\ \A p \in Services : svc[p] = "none"
  /\ program = "ground" => svc["main"] = "over"
  /\ svc' = [p \in Listers |-> IF p = "main" THEN svc[p] ELSE "ask"]
  /\ UNCHANGED <<nl, mainVars, found>>

Shared  == "route" \in opened
Sock(p) == IF p = "main" \/ Shared THEN "route" ELSE p

(* nl_link_list (by wfb_rx_init, wfb_tx_init, wfb_stream_init, can_init).  *)
AskLinks(p) ==
  /\ svc[p] = "ask"
  /\ StartList(Sock(p), Parts)
  /\ svc' = [svc EXCEPT ![p] = "collect"]
  /\ opened' = IF p = "main" THEN opened \cup {"route"} ELSE opened
  /\ UNCHANGED <<program, kernel, mainVars, found>>

(* Mutant: an NLMSG_DONE behind the last part is passed over.              *)
CollectLinksPastDone(p) ==
  /\ svc[p] = "collect"
  /\ Receive(Sock(p))
  /\ LET m == Head(queue[Sock(p)])
     IN  /\ found' = IF m \in {"links", "last"} THEN [found EXCEPT ![p] = @ + 1] ELSE found
         /\ svc' = IF m \in {"error", "done"} THEN [svc EXCEPT ![p] = "over"] ELSE svc
  /\ UNCHANGED <<program, kernel, opened, mainVars>>

(* The service reads on until NLMSG_DONE or an error; it too looks behind  *)
(* a part of the list.                                                     *)
CollectLinks(p) ==
  /\ svc[p] = "collect"
  /\ Receive(Sock(p))
  /\ LET m == Head(queue[Sock(p)])
     IN  \E behind \in IF m = "links" THEN Residues ELSE {m} :
           /\ found' = CASE m \in {"links", "last"} -> [found EXCEPT ![p] = @ + 1]
                         [] m = "error"             -> [found EXCEPT ![p] = -1]
                         [] OTHER                   -> found
           /\ svc' = IF behind \in {"error", "last", "done"}
                     THEN [svc EXCEPT ![p] = "over"] ELSE svc
           /\ IF m = "links" /\ behind = "done"
              THEN Slipped < MaxSlips /\ slips' = [slips EXCEPT !["route"] = @ + 1]
              ELSE UNCHANGED slips
  /\ UNCHANGED <<program, kernel, opened, step, card, count, asked>>

Service(p) == AskLinks(p) \/ CollectLinks(p)

Main == Setup \/ OwnList \/ Fork

Next == Main \/ \E p \in Listers : Service(p)

(* main and every service run; recvmsg waits as long as there is nothing.  *)
Fairness == WF_vars(Main) /\ \A p \in Listers : WF_vars(Service(p))

Spec == Init /\ [][Next]_vars /\ Fairness

-----------------------------------------------------------------------------
TypeOK ==
  /\ queue \in [Sockets -> Seq({"ack", "error", "links", "last", "done"})]
  /\ dump \in [Sockets -> 0 .. Parts + 1] /\ opened \subseteq {"gen", "route"}
  /\ card \in 0 .. NumCards /\ count \in -1 .. NumCards
  /\ found \in [Listers -> -1 .. Parts * Cardinality(Listers)]

(* When the setup has gone through all cards every request was confirmed,  *)
(* but for as many of the last ones on a socket as replies were not read   *)
(* where they were due: the ACK of nl_get_family and the list leave        *)
(* nothing behind that is taken for a confirmation.                        *)
NoFailureMissed ==
  step = "next" =>
    \A s \in {"gen", "route"} : \A n \in 1 .. Len(asked[s]) :
      asked[s][n] => n > Len(asked[s]) - slips[s]

Finished == step = "over"

(* The setup comes to an end: it waits for no reply that does not come.    *)
SetupEnds == []<>Finished

(* Once asked for, the list arrives, and whole, unless an answer was left  *)
(* unread before: at a service that has a socket of its own, and at every  *)
(* one when the kernel sends it with its end in one datagram.              *)
ListsArrive ==
  \A p \in Listers : []<>(
    (svc[p] # "none" /\ (Sock(p) = p \/ (kernel = "joined" /\ Parts = 1)))
      => (svc[p] = "over" /\ (found[p] = Parts \/ Slipped > 0)))

(* "Getting the list of interfaces of the given type" (link_list.c): every *)
(* service that asks for it gets the list.                                 *)
EveryServiceGetsList ==
  \A p \in Services : (svc[p] = "ask" /\ Slipped = 0) ~> (svc[p] = "over" /\ (found[p] = Parts \/ Slipped > 0))
=============================================================================
