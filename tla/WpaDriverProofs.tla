-------------------------- MODULE WpaDriverProofs --------------------------
(***************************************************************************)
(* Theorems about WpaDriver, for every limit of errors in sequence, any    *)
(* number of commands and every set of attributes and frequencies.  Three  *)
(* arguments: the count of errors is arithmetic on remainders; statistics  *)
(* rest on Exchange, which says what is on the socket while a command      *)
(* waits; the channel rests on what priv_p2p_freq_to_channel gives for the *)
(* frequency of a channel.                                                 *)
(***************************************************************************)
EXTENDS WpaDriver, Integers, SequenceTheorems, TLAPS

\* A product of naturals is a natural.
LEMMA Product ==
    ASSUME NEW a \in Nat, NEW b \in Nat
    PROVE  a * b \in Nat
OBVIOUS

\* A natural is the sum of a multiple of the divisor and its remainder.
LEMMA Division ==
    ASSUME NEW a \in Nat, NEW n \in Nat \ {0}
    PROVE  /\ a \div n \in Nat /\ a % n \in 0..n - 1
           /\ a = n * (a \div n) + (a % n)
<1>1. a \div n \in Int
  OBVIOUS
<1>2. a % n \in 0..n - 1
  OBVIOUS
<1>3. a = n * (a \div n) + (a % n)
  OBVIOUS
<1>4. a \div n >= 0
  OBVIOUS
<1> QED
  BY <1>1, <1>2, <1>3, <1>4

\* Quotient and remainder of a division are unique.
LEMMA Unique ==
    ASSUME NEW n \in Nat \ {0}, NEW p \in Nat, NEW q \in Nat,
           NEW r \in 0..n - 1, NEW s \in 0..n - 1, n * p + r = n * q + s
    PROVE  r = s
<1>1. CASE p = q
  BY <1>1
<1>2. ASSUME p >= q + 1 PROVE FALSE
  <2> DEFINE d == p - q - 1
  <2>1. d \in Nat /\ p = q + 1 + d
    BY <1>2
  <2>2. n * p = n * q + n + n * d
    BY <2>1
  <2>3. n * d \in Nat
    BY <2>1, Product
  <2> QED
    BY <2>2, <2>3
<1>3. ASSUME q >= p + 1 PROVE FALSE
  <2> DEFINE d == q - p - 1
  <2>1. d \in Nat /\ q = p + 1 + d
    BY <1>3
  <2>2. n * q = n * p + n + n * d
    BY <2>1
  <2>3. n * d \in Nat
    BY <2>1, Product
  <2> QED
    BY <2>2, <2>3
<1> QED
  BY <1>1, <1>2, <1>3

\* Counting modulo n wraps exactly at n - 1.
LEMMA NextModulo ==
    ASSUME NEW a \in Nat, NEW n \in Nat \ {0}
    PROVE  /\ a % n \in 0..n - 1
           /\ (a % n) + 1 < n => (a + 1) % n = (a % n) + 1
           /\ (a % n) + 1 = n => (a + 1) % n = 0
<1> DEFINE q == a \div n  r == a % n  p == (a + 1) \div n  s == (a + 1) % n
<1>1. q \in Nat /\ r \in 0..n - 1 /\ a = n * q + r
  BY Division
<1>2. p \in Nat /\ s \in 0..n - 1 /\ a + 1 = n * p + s
  <2>1. a + 1 \in Nat
    OBVIOUS
  <2> QED
    BY <2>1, Division, Zenon
<1>3. ASSUME r + 1 < n PROVE s = r + 1
  <2>1. r + 1 \in 0..n - 1 /\ n * p + s = n * q + (r + 1)
    BY <1>1, <1>2, <1>3
  <2> HIDE DEF q, r, p, s
  <2> QED
    BY <1>1, <1>2, <2>1, Unique
<1>4. ASSUME r + 1 = n PROVE s = 0
  <2>1. n * p + s = n * (q + 1) + 0 /\ q + 1 \in Nat /\ 0 \in 0..n - 1
    BY <1>1, <1>2, <1>4
  <2> HIDE DEF q, r, p, s
  <2> QED
    BY <1>1, <1>2, <2>1, Unique
<1> QED
  BY <1>1, <1>3, <1>4

\* The counter and the length of the run of failures agree.
Counted == failures \in Nat /\ ErrorsInSequence

\* Nothing has failed when the supplicant starts.
LEMMA CountedInit == Init => Counted
<1>1. 0 % (Sequential + 1) = 0
  BY WpaAssumption
<1> QED
  BY <1>1 DEF Init, Counted, ErrorsInSequence

\* A private command that succeeds or fails keeps the agreement.
LEMMA PrivateCounted ==
    ASSUME Counted, private_ioctl
    PROVE  Counted'
<1> DEFINE n == Sequential + 1
<1>1. n \in Nat \ {0} /\ failures \in Nat
  BY WpaAssumption DEF Counted
<1>2. CASE drv_errors' = 0 /\ failures' = 0
  <2>1. 0 % n = 0
    BY <1>1
  <2> QED
    BY <1>2, <2>1 DEF Counted, ErrorsInSequence
<1>3. CASE wpa_driver_send_hang_msg /\ failures' = failures + 1
  <2>1. /\ drv_errors = failures % n
        /\ failures % n \in 0..n - 1
        /\ (failures % n) + 1 < n => (failures + 1) % n = (failures % n) + 1
        /\ (failures % n) + 1 = n => (failures + 1) % n = 0
    BY <1>1, NextModulo DEF Counted, ErrorsInSequence
  <2>2. drv_errors' = (failures + 1) % n
    <3> DEFINE r == failures % n  s == (failures + 1) % n
    <3>1. r \in 0..n - 1 /\ (r + 1 < n => s = r + 1) /\ (r + 1 = n => s = 0)
      BY <2>1
    <3>2. drv_errors' = IF r + 1 > Sequential THEN 0 ELSE r + 1
      BY <1>3, <2>1 DEF wpa_driver_send_hang_msg
    <3> HIDE DEF r, s
    <3> QED
      BY <3>1, <3>2, WpaAssumption DEF s
  <2> QED
    BY <1>1, <1>3, <2>2 DEF Counted, ErrorsInSequence
<1> QED
  BY <1>2, <1>3 DEF private_ioctl

\* Every other step leaves the counter and the failures alone.
LEMMA CountedStep ==
    ASSUME Counted, [Next]_vars
    PROVE  Counted'
<1>1. UNCHANGED errors => Counted'
  BY DEF Counted, ErrorsInSequence, errors
<1>2. ASSUME NEW cmd, NEW err, Finish(cmd, err) PROVE Counted'
  BY <1>1, <1>2, PrivateCounted DEF Finish
<1>3. CASE driver_cmd
  <2>1. ASSUME NEW cmd \in Testmode,
               testmode(cmd) \/ testmode_fails(cmd) \/ invalid_argument(cmd)
        PROVE  Counted'
    BY <1>1, <1>2, <2>1 DEF testmode, testmode_fails, invalid_argument
  <2>2. CASE cmd_ignored \/ cmd_accepted \/ cmd_country \/ cmd_get_cap
    BY <1>1, <2>2 DEF cmd_ignored, cmd_accepted, cmd_country, cmd_get_cap
  <2>3. ASSUME NEW on \in BOOLEAN,
               cmd_start_stop(on) \/ cmd_use_mcc(on) \/ cmd_mcc(on)
                   \/ cmd_scan_cache(on)
        PROVE  Counted'
    BY <1>1, <2>3, Zenon DEF cmd_start_stop, cmd_use_mcc, cmd_mcc,
         cmd_scan_cache
  <2>4. ASSUME NEW cap \in {1, 257}, cmd_set_cap(cap) PROVE Counted'
    BY <1>1, <2>4 DEF cmd_set_cap
  <2>5. CASE cmd_miracast \/ cmd_private
    BY <2>5, PrivateCounted DEF cmd_miracast, cmd_private
  <2> QED
    BY <1>3, <2>1, <2>2, <2>3, <2>4, <2>5 DEF driver_cmd
<1>4. CASE send_and_recv_msgs
  BY <1>1, <1>2, <1>4
     DEF send_and_recv_msgs, recv_valid, recv_end, recv_fails
<1>5. CASE driver_answers \/ Tick \/ scan_loading_timeout \/ Station
  BY <1>1, <1>5 DEF driver_answers, Tick, scan_loading_timeout, Station
<1>6. CASE UNCHANGED vars
  BY <1>1, <1>6 DEF vars
<1> QED
  BY <1>3, <1>4, <1>5, <1>6 DEF Next

\* The counter of driver errors is the number of failed private commands in a
\* row, modulo the limit, after any commands and for any limit.
THEOREM ErrorsCounted == Spec => []ErrorsInSequence
<1>1. Counted /\ [Next]_vars => Counted'
  BY CountedStep
<1>2. Counted => ErrorsInSequence
  BY DEF Counted
<1> QED
  BY CountedInit, <1>1, <1>2, PTL DEF Spec
----------------------------------------------------------------------------
(* Test mode: one request, one answer.                                     *)

Ack == [type |-> "ack", attrs |-> {}]
Refusal == [type |-> "error", attrs |-> {}]
Data(attrs) == [type |-> "valid", attrs |-> attrs]

\* What can be on the socket while a command waits for its answer.  No message
\* is left when the loop goes on, so the next command does not take it for its
\* own; the acknowledgement of a query comes after its data, and then the
\* buffer holds what was sent; a lost acknowledgement leaves nothing to read.
Exchange ==
    /\ call = "none" \/ asked => replies = <<>> /\ ~lost
    /\ call = "none" => ~asked
    /\ asked => filled = {} /\ sent = {}
    /\ call # "none" /\ ~asked =>
          \/ replies = <<Refusal>> /\ ~lost
          \/ replies = <<Ack>> /\ ~lost /\ filled = sent
          \/ /\ call \in Queries /\ ~lost /\ filled = {}
             /\ replies = <<Data(sent), Ack>>
          \/ replies = <<>> /\ lost

\* The steps by what they do to the socket.
LEMMA StepKinds ==
    ASSUME [Next]_vars
    PROVE  \/ UNCHANGED <<netlink, printed>>
           \/ \E cmd \in Testmode : testmode(cmd) \/ testmode_fails(cmd)
           \/ driver_answers \/ recv_valid \/ recv_end \/ recv_fails
<1>1. ASSUME NEW cmd, invalid_argument(cmd)
      PROVE  UNCHANGED <<netlink, printed>>
  BY <1>1 DEF invalid_argument, Answer
<1>2. CASE cmd_ignored \/ cmd_accepted \/ cmd_country \/ cmd_get_cap
  BY <1>2 DEF cmd_ignored, cmd_accepted, cmd_country, cmd_get_cap, Answer
<1>3. ASSUME NEW on \in BOOLEAN,
             cmd_start_stop(on) \/ cmd_use_mcc(on) \/ cmd_mcc(on)
                 \/ cmd_scan_cache(on)
      PROVE  UNCHANGED <<netlink, printed>>
  BY <1>3, Zenon
     DEF cmd_start_stop, cmd_use_mcc, cmd_mcc, cmd_scan_cache, Answer
<1>4. ASSUME NEW cap, cmd_set_cap(cap)
      PROVE  UNCHANGED <<netlink, printed>>
  BY <1>4 DEF cmd_set_cap, Answer
<1>5. CASE cmd_miracast \/ cmd_private \/ Tick \/ scan_loading_timeout
           \/ Station \/ UNCHANGED vars
  BY <1>5
     DEF cmd_miracast, cmd_private, Tick, scan_loading_timeout, Station, vars
<1> QED
  BY <1>1, <1>2, <1>3, <1>4, <1>5 DEF Next, driver_cmd, send_and_recv_msgs

\* The end of a command: statistics are printed only after an acknowledged
\* query, and the loop goes on.
LEMMA FinishPrints ==
    ASSUME NEW cmd, NEW err, Finish(cmd, err)
    PROVE  /\ call' = "none"
           /\ printed' \in {printed, "answer", "other"}
           /\ printed' = "other" /\ printed # "other"
                => cmd \in Queries /\ err = "ok" /\ filled # sent
BY DEF Finish

\* The messages a driver sends are messages.
LEMMA MessagesOK ==
    /\ Ack \in Messages /\ Refusal \in Messages
    /\ \A attrs \in SUBSET Attrs : Data(attrs) \in Messages
BY DEF Ack, Refusal, Data, Messages

\* Two messages, one after the other.
LEMMA PairSent ==
    ASSUME NEW a, NEW b
    PROVE  /\ <<>> \o <<a, b>> = <<a, b>>
           /\ Head(<<a, b>>) = a /\ Tail(<<a, b>>) = <<b>>
           /\ \A S : a \in S /\ b \in S => <<a, b>> \in Seq(S)
<1>1. <<a, b>> \in Seq({a, b})
  OBVIOUS
<1>2. <<>> \o <<a, b>> = <<a, b>>
  BY <1>1
<1>3. Head(<<a, b>>) = a /\ Tail(<<a, b>>) = <<b>>
  OBVIOUS
<1>4. ASSUME NEW S, a \in S, b \in S PROVE <<a, b>> \in Seq(S)
  BY <1>4
<1> QED
  BY <1>2, <1>3, <1>4

\* What driver_answers puts on an empty socket.
LEMMA AnswersSent ==
    ASSUME driver_answers, replies = <<>>
    PROVE  \/ replies' = <<Refusal>> /\ UNCHANGED sent
           \/ replies' = <<Ack>> /\ call \notin Queries /\ UNCHANGED sent
           \/ /\ call \in Queries /\ sent' \in SUBSET Attrs
              /\ replies' = <<Data(sent'), Ack>>
<1>1. \A m : Append(<<>>, m) = <<m>>
  OBVIOUS
<1>2. \A a, b : <<>> \o <<a, b>> = <<a, b>>
  BY PairSent
<1> QED
  BY <1>1, <1>2, Zenon DEF driver_answers, Refusal, Data, Ack

\* The message that is read next.
LEMMA NextMessage ==
    ASSUME Exchange, call # "none", replies # <<>>
    PROVE  /\ ~asked /\ ~lost
           /\ \/ /\ replies = <<Refusal>> /\ Head(replies).type = "error"
                 /\ Tail(replies) = <<>>
              \/ /\ replies = <<Ack>> /\ Head(replies).type = "ack"
                 /\ Tail(replies) = <<>> /\ filled = sent
              \/ /\ call \in Queries /\ filled = {}
                 /\ Head(replies).type = "valid" /\ Head(replies).attrs = sent
                 /\ Tail(replies) = <<Ack>>
<1>1. ~asked
  BY DEF Exchange
<1>2. CASE replies = <<Refusal>> /\ ~lost
  <2>1. Head(replies) = Refusal /\ Tail(replies) = <<>>
    BY <1>2
  <2> QED
    BY <1>1, <1>2, <2>1 DEF Refusal
<1>3. CASE replies = <<Ack>> /\ ~lost /\ filled = sent
  <2>1. Head(replies) = Ack /\ Tail(replies) = <<>>
    BY <1>3
  <2> QED
    BY <1>1, <1>3, <2>1 DEF Ack
<1>4. CASE /\ call \in Queries /\ ~lost /\ filled = {}
           /\ replies = <<Data(sent), Ack>>
  <2>1. Head(replies) = Data(sent) /\ Tail(replies) = <<Ack>>
    BY <1>4, PairSent
  <2> QED
    BY <1>1, <1>4, <2>1 DEF Data
<1> QED
  BY <1>1, <1>2, <1>3, <1>4 DEF Exchange

\* A message with which the wait ends is the last one.
LEMMA LastMessage ==
    ASSUME Exchange, recv_end
    PROVE  /\ ~asked /\ ~lost /\ call # "none" /\ replies' = <<>>
           /\ UNCHANGED <<asked, filled, sent, lost>>
           /\ \/ Finish(call, "fail")
              \/ Finish(call, "ok") /\ filled = sent
<1>1. /\ call # "none" /\ replies # <<>> /\ Head(replies).type # "valid"
      /\ replies' = Tail(replies) /\ UNCHANGED <<asked, filled, sent, lost>>
  BY DEF recv_end
<1>2. CASE Head(replies).type = "error"
  <2>1. Finish(call, "fail")
    BY <1>2 DEF recv_end, ends_the_wait
  <2> QED
    BY <1>1, <1>2, <2>1, NextMessage
<1>3. CASE Head(replies).type = "ack"
  <2>1. Finish(call, "ok")
    BY <1>3 DEF recv_end, ends_the_wait
  <2> QED
    BY <1>1, <1>3, <2>1, NextMessage
<1> QED
  BY <1>1, <1>2, <1>3, NextMessage

\* Data is read before the acknowledgement, and all of it copied.
LEMMA FirstMessage ==
    ASSUME Exchange, recv_valid
    PROVE  /\ ~asked /\ ~lost /\ call \in Queries
           /\ replies' = <<Ack>> /\ filled' = sent
           /\ UNCHANGED <<call, asked, sent, lost, printed>>
<1>1. /\ call # "none" /\ replies # <<>> /\ Head(replies).type = "valid"
      /\ replies' = Tail(replies)
      /\ UNCHANGED <<call, asked, sent, lost, printed>>
      /\ filled' = filled \cup Head(replies).attrs
  BY DEF recv_valid, valid_handler
<1> QED
  BY <1>1, NextMessage

\* A lost message is the data, and the acknowledgement is still to come; or it
\* is the last one, and nothing is.
LEMMA LostMessage ==
    ASSUME Exchange, recv_fails
    PROVE  /\ ~asked /\ call # "none"
           /\ UNCHANGED <<call, asked, filled, printed>>
           /\ \/ replies' = <<Ack>> /\ ~lost' /\ filled = {} /\ sent' = {}
              \/ replies' = <<>> /\ lost' = TRUE /\ UNCHANGED sent
<1>1. /\ call # "none" /\ replies # <<>> /\ replies' = Tail(replies)
      /\ UNCHANGED <<call, asked, filled, printed>>
  BY DEF recv_fails
<1>2. CASE Head(replies).type = "valid"
  <2>1. sent' = {} /\ UNCHANGED lost
    BY <1>2 DEF recv_fails
  <2> QED
    BY <1>1, <1>2, <2>1, NextMessage
<1>3. CASE Head(replies).type # "valid"
  <2>1. lost' = TRUE /\ UNCHANGED sent
    BY <1>3 DEF recv_fails
  <2> QED
    BY <1>1, <1>3, <2>1, NextMessage
<1> QED
  BY <1>2, <1>3

\* Requests and answers keep in step.
LEMMA ExchangeStep ==
    ASSUME NetlinkOK, Exchange, [Next]_vars
    PROVE  NetlinkOK' /\ Exchange'
<1>1. CASE UNCHANGED netlink
  BY <1>1 DEF netlink, NetlinkOK, Exchange
<1>2. ASSUME NEW cmd \in Testmode, testmode(cmd)
      PROVE  NetlinkOK' /\ Exchange'
  <2>1. /\ call = "none" /\ call' = cmd /\ asked' = TRUE /\ filled' = {}
        /\ sent' = {} /\ UNCHANGED <<replies, lost>>
    BY <1>2 DEF testmode, ReceiveTest, Receive
  <2>2. NetlinkOK'
    BY <2>1 DEF NetlinkOK
  <2>3. cmd # "none"
    BY DEF Testmode, Queries, Honest, Blind, Deaf
  <2>4. Exchange'
    BY <2>1, <2>3 DEF Exchange
  <2> QED
    BY <2>2, <2>4
<1>3. ASSUME NEW cmd, testmode_fails(cmd)
      PROVE  NetlinkOK' /\ Exchange'
  <2>1. call = "none" /\ call' = "none"
        /\ UNCHANGED <<replies, asked, filled, sent, lost>>
    BY <1>3 DEF testmode_fails, Finish, ReceiveTest, Receive
  <2> QED
    BY <2>1 DEF NetlinkOK, Exchange
<1>4. CASE driver_answers
  <2>1. asked /\ asked' = FALSE /\ UNCHANGED <<call, filled, lost>>
    BY <1>4 DEF driver_answers
  <2>2. replies = <<>> /\ ~lost /\ call # "none" /\ filled = {} /\ sent = {}
    BY <2>1 DEF Exchange
  <2>3. \/ replies' = <<Refusal>> /\ UNCHANGED sent
        \/ replies' = <<Ack>> /\ call \notin Queries /\ UNCHANGED sent
        \/ /\ call \in Queries /\ sent' \in SUBSET Attrs
           /\ replies' = <<Data(sent'), Ack>>
    BY <1>4, <2>2, AnswersSent
  <2>4. replies' \in Seq(Messages) /\ sent' \subseteq Attrs
    <3>1. <<Refusal>> \in Seq(Messages) /\ <<Ack>> \in Seq(Messages)
      BY MessagesOK
    <3>2. \A attrs \in SUBSET Attrs : <<Data(attrs), Ack>> \in Seq(Messages)
      BY MessagesOK, PairSent
    <3>3. sent' \in SUBSET Attrs
      BY <2>3 DEF NetlinkOK
    <3> QED
      BY <2>3, <3>1, <3>2, <3>3, Zenon
  <2>5. NetlinkOK'
    BY <2>1, <2>4 DEF NetlinkOK
  <2>6. Exchange'
    BY <2>1, <2>2, <2>3 DEF Exchange
  <2> QED
    BY <2>5, <2>6
<1>5. CASE recv_valid
  <2>1. /\ ~asked /\ ~lost /\ call \in Queries
        /\ UNCHANGED <<call, asked, sent, lost>>
        /\ replies' = <<Ack>> /\ filled' = sent
    BY <1>5, FirstMessage
  <2>2. call # "none"
    BY <1>5 DEF recv_valid
  <2>3. replies' \in Seq(Messages)
    BY <2>1, MessagesOK
  <2>4. NetlinkOK'
    BY <2>1, <2>3 DEF NetlinkOK
  <2>5. Exchange'
    BY <2>1, <2>2 DEF Exchange
  <2> QED
    BY <2>4, <2>5
<1>6. CASE recv_end
  <2>1. /\ ~asked /\ ~lost /\ replies' = <<>>
        /\ UNCHANGED <<asked, filled, sent, lost>>
    BY <1>6, LastMessage
  <2>2. call' = "none"
    BY <1>6, LastMessage, FinishPrints
  <2>3. replies' \in Seq(Messages)
    BY <2>1
  <2> QED
    BY <2>1, <2>2, <2>3 DEF NetlinkOK, Exchange
<1>7. CASE recv_fails
  <2>1. ~asked /\ call # "none" /\ UNCHANGED <<call, asked, filled>>
    BY <1>7, LostMessage
  <2>2. CASE replies' = <<Ack>> /\ ~lost' /\ filled = {} /\ sent' = {}
    <3>1. replies' \in Seq(Messages)
      BY <2>2, MessagesOK
    <3>2. lost' \in BOOLEAN
      BY <1>7 DEF recv_fails, NetlinkOK
    <3>3. NetlinkOK'
      BY <2>1, <2>2, <3>1, <3>2 DEF NetlinkOK
    <3> QED
      BY <2>1, <2>2, <3>3 DEF Exchange
  <2>3. CASE replies' = <<>> /\ lost' = TRUE /\ UNCHANGED sent
    <3>1. replies' \in Seq(Messages)
      BY <2>3
    <3>2. NetlinkOK'
      BY <2>1, <2>3, <3>1 DEF NetlinkOK
    <3> QED
      BY <2>1, <2>3, <3>2 DEF Exchange
  <2> QED
    BY <1>7, <2>2, <2>3, LostMessage
<1> QED
  BY <1>1, <1>2, <1>3, <1>4, <1>5, <1>6, <1>7, StepKinds

\* No step prints anything but the answer to the request it was printed for.
LEMMA PrintedStep ==
    ASSUME Exchange, StatisticsFromDriver, [Next]_vars
    PROVE  StatisticsFromDriver'
<1> USE DEF StatisticsFromDriver
<1>1. CASE UNCHANGED printed
  BY <1>1
<1>2. ASSUME NEW cmd, testmode(cmd)
      PROVE  StatisticsFromDriver'
  BY <1>2 DEF testmode
<1>3. ASSUME NEW cmd, testmode_fails(cmd)
      PROVE  StatisticsFromDriver'
  BY <1>3, FinishPrints DEF testmode_fails
<1>4. CASE driver_answers \/ recv_valid \/ recv_fails
  BY <1>4 DEF driver_answers, recv_valid, recv_fails
<1>5. CASE recv_end
  <2>1. CASE Finish(call, "ok") /\ filled = sent
    BY <2>1, FinishPrints
  <2>2. CASE Finish(call, "fail")
    BY <2>2, FinishPrints
  <2> QED
    BY <1>5, <2>1, <2>2, LastMessage
<1> QED
  BY <1>1, <1>2, <1>3, <1>4, <1>5, StepKinds

----------------------------------------------------------------------------
(* The channels of P2P.                                                    *)

\* p's channel is one of its operating class, unless it came from a frequency
\* of no channel; in SCC it is the only one.
Fits(p) ==
    /\ p.from \in ChannelFreqs \cup {0} =>
          /\ p.op[1] \in DOMAIN ClassChannels
          /\ p.op[2] \in ClassChannels[p.op[1]]
    /\ p.channels \subseteq {p.op}

\* A pair of an operating class and one of its channels.
Proper(op) ==
    /\ op \in Nat \X Nat
    /\ op[1] \in DOMAIN ClassChannels /\ op[2] \in ClassChannels[op[1]]

\* ClassChannels, class by class.
LEMMA ProperClasses ==
    /\ \A c \in 1..13 : Proper(<<81, c>>)
    /\ Proper(<<82, 14>>)
    /\ \A c \in {36, 40, 44, 48} : Proper(<<115, c>>)
    /\ \A c \in {52, 56, 60, 64} : Proper(<<118, c>>)
    /\ \A c \in {100 + 4 * k : k \in 0..10} : Proper(<<121, c>>)
    /\ \A c \in {149, 153, 157, 161} : Proper(<<124, c>>)
    /\ \A c \in {165, 169} : Proper(<<125, c>>)
BY DEF Proper, ClassChannels

\* For the frequency of a channel, priv_p2p_freq_to_channel gives that channel
\* in its class: neither the ranges nor the rasters lose one.
LEMMA ChannelKnown ==
    ASSUME NEW freq \in ChannelFreqs
    PROVE  Proper(priv_p2p_freq_to_channel(freq))
<1> DEFINE ch == priv_p2p_freq_to_channel(freq)
<1>1. CASE freq \in {2407 + 5 * c : c \in 1..13}
  <2>1. PICK c \in 1..13 : freq = 2407 + 5 * c
    BY <1>1
  <2>2. /\ freq \in 2412..2472 /\ (freq - 2407) % 5 = 0
        /\ (freq - 2407) \div 5 = c
    BY <2>1
  <2>3. ch = <<81, c>>
    BY <2>2, SMTT(60) DEF priv_p2p_freq_to_channel
  <2> QED
    BY <2>3, ProperClasses
<1>2. CASE freq = 2484
  <2>1. ch = <<82, 14>>
    BY <1>2, SMTT(60) DEF priv_p2p_freq_to_channel
  <2> QED
    BY <2>1, ProperClasses
<1>3. ASSUME NEW c \in {36, 40, 44, 48}, freq = 5000 + 5 * c
      PROVE  Proper(ch)
  <2>1. /\ freq \in 5180..5240 /\ (freq - 5000) % 5 = 0
        /\ (freq - 5000) \div 5 = c
    BY <1>3
  <2>2. ch = <<115, c>>
    BY <2>1, SMTT(60) DEF priv_p2p_freq_to_channel
  <2> QED
    BY <2>2, ProperClasses
<1>4. ASSUME NEW c \in {52, 56, 60, 64}, freq = 5000 + 5 * c
      PROVE  Proper(ch)
  <2>1. freq \in 5260..5320 /\ (freq - 5000) \div 5 = c
    BY <1>4
  <2>2. ch = <<118, c>>
    BY <2>1, SMTT(60) DEF priv_p2p_freq_to_channel
  <2> QED
    BY <2>2, ProperClasses
<1>5. ASSUME NEW k \in 0..10, freq = 5000 + 5 * (100 + 4 * k)
      PROVE  Proper(ch)
  <2>1. freq \in 5500..5700 /\ (freq - 5000) \div 5 = 100 + 4 * k
    BY <1>5
  <2>2. ch = <<121, 100 + 4 * k>>
    BY <2>1, SMTT(60) DEF priv_p2p_freq_to_channel
  <2> QED
    BY <2>2, ProperClasses
<1>6. ASSUME NEW c \in {149, 153, 157, 161}, freq = 5000 + 5 * c
      PROVE  Proper(ch)
  <2>1. /\ freq \in 5745..5805 /\ (freq - 5000) % 5 = 0
        /\ (freq - 5000) \div 5 = c
    BY <1>6
  <2>2. ch = <<124, c>>
    BY <2>1, SMTT(60) DEF priv_p2p_freq_to_channel
  <2> QED
    BY <2>2, ProperClasses
<1>7. ASSUME NEW c \in {165, 169}, freq = 5000 + 5 * c
      PROVE  Proper(ch)
  <2>1. freq \in 5825..5845 /\ (freq - 5000) \div 5 = c
    BY <1>7
  <2>2. ch = <<125, c>>
    BY <2>1, SMTT(60) DEF priv_p2p_freq_to_channel
  <2> QED
    BY <2>2, ProperClasses
<1> QED
  BY <1>1, <1>2, <1>3, <1>4, <1>5, <1>6, <1>7 DEF ChannelFreqs

\* A frequency is converted to a pair of numbers, or is unknown.
LEMMA ConversionOK ==
    ASSUME NEW freq \in Nat
    PROVE  priv_p2p_freq_to_channel(freq) \in (Nat \X Nat) \cup {Unknown}
<1> DEFINE ch == priv_p2p_freq_to_channel(freq)
<1>1. CASE freq \in 2412..2472
  <2>1. (freq - 2407) \div 5 \in Nat
    BY <1>1
  <2>2. ch = Unknown \/ ch = <<81, (freq - 2407) \div 5>>
    BY <1>1, SMTT(60) DEF priv_p2p_freq_to_channel
  <2> QED
    BY <2>1, <2>2
<1>2. CASE freq = 2484
  <2>1. ch = <<82, 14>>
    BY <1>2, SMTT(60) DEF priv_p2p_freq_to_channel
  <2> QED
    BY <2>1
<1>3. CASE freq >= 5180
  <2>1. (freq - 5000) \div 5 \in Nat
    BY <1>3
  <2>2. CASE freq \in 5180..5240
    BY <2>1, <2>2, SMTT(60) DEF priv_p2p_freq_to_channel
  <2>3. CASE freq \in 5260..5320
    BY <2>1, <2>3, SMTT(60) DEF priv_p2p_freq_to_channel
  <2>4. CASE freq \in 5500..5700
    BY <2>1, <2>4, SMTT(60) DEF priv_p2p_freq_to_channel
  <2>5. CASE freq \in 5745..5805
    BY <2>1, <2>5, SMTT(60) DEF priv_p2p_freq_to_channel
  <2>6. CASE freq \in 5825..5845
    BY <2>1, <2>6, SMTT(60) DEF priv_p2p_freq_to_channel
  <2>7. CASE freq \notin (5180..5240) \cup (5260..5320) \cup (5500..5700)
                        \cup (5745..5805) \cup (5825..5845)
    BY <1>3, <2>7, SMTT(60) DEF priv_p2p_freq_to_channel
  <2> QED
    BY <2>2, <2>3, <2>4, <2>5, <2>6, <2>7
<1>4. CASE freq \notin 2412..2472 /\ freq # 2484 /\ ~(freq >= 5180)
  BY <1>4, SMTT(60) DEF priv_p2p_freq_to_channel
<1> QED
  BY <1>1, <1>2, <1>3, <1>4

\* The channels p2p_wfd_sink_config_scc chooses, in SCC and in MCC.
LEMMA ConfigFits ==
    ASSUME NEW p \in P2pData, NEW freq \in Nat,
           NEW q \in p2p_wfd_sink_config_scc(p, freq)
    PROVE  q \in P2pData /\ Fits(q)
<1>1. CASE freq = 0
  <2>1. PICK op \in Oper(p.configured) :
          q = [p EXCEPT !.op = op, !.channels = {}, !.from = 0]
    BY <1>1 DEF p2p_wfd_sink_config_scc
  <2>2. Proper(op)
    BY ProperClasses DEF Oper
  <2>3. op \in Nat \X Nat
    BY <2>2 DEF Proper
  <2>4. q \in P2pData /\ q.op = op /\ q.channels = {}
    BY <2>1, <2>3, ZenonT(60) DEF P2pData
  <2> QED
    BY <2>2, <2>4 DEF Proper, Fits
<1>2. CASE freq # 0
  <2> DEFINE ch == priv_p2p_freq_to_channel(freq)
  <2>1. PICK op \in IF ch = Unknown THEN Garbage ELSE {ch} :
          q = [p EXCEPT !.op = op, !.channels = {op}, !.from = freq]
    BY <1>2 DEF p2p_wfd_sink_config_scc, Converted
  <2>2. op \in Nat \X Nat
    BY <2>1, ConversionOK DEF Garbage
  <2>3. /\ q \in P2pData /\ q.op = op /\ q.channels = {op}
        /\ q.from = freq
    BY <2>1, <2>2, ZenonT(60) DEF P2pData
  <2>4. ASSUME freq \in ChannelFreqs PROVE Proper(op)
    <3>1. Proper(ch)
      BY <2>4, ChannelKnown
    <3>2. ch # Unknown
      <4> HIDE DEF ch
      <4>1. PICK a \in Nat, b \in Nat : ch = <<a, b>>
        BY <3>1 DEF Proper
      <4>2. Len(<<a, b>>) # Len(<<>>)
        OBVIOUS
      <4> QED
        BY <4>1, <4>2 DEF Unknown
    <3> QED
      BY <2>1, <3>1, <3>2
  <2>5. Fits(q)
    BY <1>2, <2>3, <2>4 DEF Fits, Proper
  <2> QED
    BY <2>3, <2>5
<1> QED
  BY <1>1, <1>2

\* A command that changes nothing of the channel.
LEMMA SameChannel ==
    ASSUME NEW p \in P2pData, NEW use \in BOOLEAN, NEW cap \in 0..255
    PROVE  \A q \in {[p EXCEPT !.use_mcc = use], [p EXCEPT !.mcc = use],
                     [p EXCEPT !.dev_capab = cap]} :
              q \in P2pData /\ (Fits(p) => Fits(q))
<1>1. ASSUME NEW q \in {[p EXCEPT !.use_mcc = use], [p EXCEPT !.mcc = use],
                        [p EXCEPT !.dev_capab = cap]}
      PROVE  q \in P2pData /\ q.op = p.op /\ q.channels = p.channels
             /\ q.from = p.from
  BY <1>1 DEF P2pData
<1> QED
  BY <1>1 DEF Fits

\* No command leaves a channel outside its class.
LEMMA ChannelStep ==
    ASSUME LinkOK, p2p \in P2pData, [Next]_vars
    PROVE  p2p' \in P2pData /\ (Fits(p2p) => Fits(p2p)')
<1> DEFINE Good == p2p' \in P2pData /\ (Fits(p2p) => Fits(p2p'))
<1>0. shared \in Nat /\ Freqs \subseteq Nat /\ OtherFreqs \subseteq Nat
  BY WpaAssumption DEF LinkOK
<1>1. CASE UNCHANGED p2p
  BY <1>1
<1>2. CASE cmd_miracast
  <2>1. ASSUME NEW freq \in {shared, 0} \cup Freqs \cup OtherFreqs,
               p2p' \in p2p_wfd_sink_config_scc(p2p, freq)
        PROVE  Good
    <3>1. freq \in Nat
      BY <1>0
    <3> QED
      BY <2>1, <3>1, ConfigFits
  <2> QED
    BY <1>1, <1>2, <2>1 DEF cmd_miracast
<1>3. ASSUME NEW use \in BOOLEAN, cmd_use_mcc(use) PROVE Good
  <2> DEFINE p == [p2p EXCEPT !.use_mcc = use]
             freq == IF use THEN 0 ELSE shared
  <2>1. p \in P2pData /\ freq \in Nat
    BY <1>0 DEF P2pData
  <2>2. p2p' \in p2p_wfd_sink_config_scc(p, freq)
    BY <1>3, Zenon DEF cmd_use_mcc
  <2> HIDE DEF p, freq
  <2> QED
    BY <2>1, <2>2, ConfigFits
<1>4. ASSUME NEW on \in BOOLEAN, cmd_mcc(on) PROVE Good
  <2>1. p2p' = [p2p EXCEPT !.mcc = on] /\ 0 \in 0..255
    BY <1>4 DEF cmd_mcc
  <2> QED
    BY <2>1, SameChannel, ZenonT(60)
<1>5. ASSUME NEW cap \in {1, 257}, cmd_set_cap(cap) PROVE Good
  <2>1. CASE p2p' = [p2p EXCEPT !.dev_capab = cap % 256]
    <3>1. cap % 256 \in 0..255 /\ TRUE \in BOOLEAN
      OBVIOUS
    <3> QED
      BY <2>1, <3>1, SameChannel, ZenonT(60)
  <2> QED
    BY <1>1, <1>5, <2>1 DEF cmd_set_cap
<1>6. ASSUME NEW cmd,
             invalid_argument(cmd) \/ testmode(cmd) \/ testmode_fails(cmd)
      PROVE  UNCHANGED p2p
  BY <1>6 DEF invalid_argument, testmode, testmode_fails, Finish, rest
<1>7. CASE cmd_ignored \/ cmd_accepted \/ cmd_country \/ cmd_get_cap
           \/ cmd_private
  BY <1>7 DEF cmd_ignored, cmd_accepted, cmd_country, cmd_get_cap, cmd_private,
       rest
<1>8. ASSUME NEW on \in BOOLEAN, cmd_start_stop(on) \/ cmd_scan_cache(on)
      PROVE  UNCHANGED p2p
  BY <1>8, Zenon DEF cmd_start_stop, cmd_scan_cache
<1>9. CASE driver_answers \/ recv_valid \/ recv_end \/ recv_fails \/ Tick
           \/ scan_loading_timeout \/ Station \/ UNCHANGED vars
  BY <1>9 DEF driver_answers, recv_valid, recv_end, recv_fails, Finish, Tick,
       scan_loading_timeout, Station, vars, rest
<1>10. Good
  BY <1>1, <1>2, <1>3, <1>4, <1>5, <1>6, <1>7, <1>8, <1>9
     DEF Next, driver_cmd, send_and_recv_msgs
<1> QED
  BY <1>10 DEF Fits

----------------------------------------------------------------------------
(* The other variables.                                                    *)

\* A private command fails or succeeds.
LEMMA PrivateOK ==
    ASSUME AnswersOK, private_ioctl
    PROVE  /\ answer' \in {"none", "ok", "fail"}
           /\ drv_errors' \in 0..Sequential /\ failures' \in Nat
BY WpaAssumption DEF AnswersOK, private_ioctl, wpa_driver_send_hang_msg

\* What a command returns is an answer.
LEMMA ReturnedOK ==
    ASSUME NEW cmd, NEW err \in {"ok", "fail"}
    PROVE  Returned(cmd, err) \in {"ok", "fail"}
BY DEF Returned

\* The end of a test mode command.
LEMMA FinishOK ==
    ASSUME AnswersOK, LinkOK, NEW cmd, NEW err \in {"ok", "fail"},
           Finish(cmd, err), commands' \in 0..MaxCommands
    PROVE  AnswersOK' /\ LinkOK'
<1>1. printed' \in {"nothing", "answer", "other"}
  BY FinishPrints DEF AnswersOK
<1>2. /\ answer' \in {"none", "ok", "fail"}
      /\ drv_errors' \in 0..Sequential /\ failures' \in Nat
  <2>1. CASE private_ioctl
    BY <2>1, PrivateOK
  <2>2. CASE answer' = Returned(cmd, err) /\ UNCHANGED errors
    BY <2>2, ReturnedOK DEF errors, AnswersOK
  <2> QED
    BY <2>1, <2>2 DEF Finish
<1>3. timer' \in 0..ScanTimeout /\ loading' \in BOOLEAN
  <2>1. ScanTimeout \in 0..ScanTimeout
    BY WpaAssumption
  <2> QED
    BY <2>1, Zenon DEF Finish, set_scan_loading, LinkOK
<1>4. UNCHANGED <<link, shared, cache>>
  BY DEF Finish
<1>5. AnswersOK'
  BY <1>1, <1>2 DEF AnswersOK
<1> QED
  BY <1>3, <1>4, <1>5 DEF LinkOK

\* A command is counted.
LEMMA ReceiveOK ==
    ASSUME AnswersOK, Receive
    PROVE  commands' \in 0..MaxCommands
BY WpaAssumption DEF AnswersOK, Receive

\* So is a test mode command, unless it is a repetition.
LEMMA ReceiveTestOK ==
    ASSUME AnswersOK, NEW cmd, ReceiveTest(cmd)
    PROVE  commands' \in 0..MaxCommands
BY ReceiveOK DEF AnswersOK, ReceiveTest

\* A command that is over in one step.
LEMMA AnswerOK ==
    ASSUME AnswersOK, NEW ret \in {"ok", "fail"}, Answer(ret),
           UNCHANGED errors
    PROVE  AnswersOK'
BY ReceiveOK DEF Answer, AnswersOK, errors

\* Every step keeps the answers and the link typed.
LEMMA AnswersStep ==
    ASSUME AnswersOK, LinkOK, Exchange, [Next]_vars
    PROVE  AnswersOK' /\ LinkOK'
<1>1. UNCHANGED <<link, shared, cache, timer, loading>> => LinkOK'
  BY DEF LinkOK
<1>2. ASSUME NEW cmd, testmode(cmd) PROVE AnswersOK' /\ LinkOK'
  <2>1. commands' \in 0..MaxCommands
    BY <1>2, ReceiveTestOK DEF testmode
  <2> QED
    BY <1>1, <1>2, <2>1 DEF testmode, errors, rest, AnswersOK
<1>3. ASSUME NEW cmd, testmode_fails(cmd) PROVE AnswersOK' /\ LinkOK'
  BY <1>3, ReceiveTestOK, FinishOK DEF testmode_fails
<1>4. ASSUME NEW cmd, invalid_argument(cmd) PROVE AnswersOK' /\ LinkOK'
  BY <1>1, <1>4, AnswerOK DEF invalid_argument, rest
<1>5. CASE cmd_ignored \/ cmd_accepted \/ cmd_country \/ cmd_get_cap
  BY <1>1, <1>5, AnswerOK
     DEF cmd_ignored, cmd_accepted, cmd_country, cmd_get_cap, rest
<1>6. ASSUME NEW up \in BOOLEAN, cmd_start_stop(up)
      PROVE  AnswersOK' /\ LinkOK'
  <2>1. PICK set \in BOOLEAN, deauthenticated \in BOOLEAN :
          /\ Answer(IF set THEN "ok" ELSE "fail")
          /\ link' = [up |-> IF set THEN up ELSE link.up,
                      told |-> CASE ~set -> link.told
                                 [] set /\ up -> "STARTED"
                                 [] set /\ ~up -> "STOPPED",
                      associated |-> link.associated
                                        /\ (up \/ ~deauthenticated)]
          /\ UNCHANGED <<errors, shared, p2p, cache, timer, loading>>
    BY <1>6, Zenon DEF cmd_start_stop
  <2>2. AnswersOK'
    BY <2>1, AnswerOK
  <2> DEFINE a == link.associated /\ (up \/ ~deauthenticated)
             u == IF set THEN up ELSE link.up
             w == CASE ~set -> link.told
                    [] set /\ up -> "STARTED"
                    [] set /\ ~up -> "STOPPED"
  <2>3. a \in BOOLEAN
    OBVIOUS
  <2>4. u \in BOOLEAN /\ w \in {"none", "STARTED", "STOPPED"}
    BY DEF LinkOK
  <2>5. link' = [up |-> u, told |-> w, associated |-> a]
    BY <2>1, Zenon
  <2> HIDE DEF a, u, w
  <2>6. link' \in [up : BOOLEAN, told : {"none", "STARTED", "STOPPED"},
                   associated : BOOLEAN]
    BY <2>3, <2>4, <2>5
  <2> QED
    BY <2>1, <2>2, <2>6 DEF LinkOK
<1>7. ASSUME NEW on \in BOOLEAN, cmd_use_mcc(on) \/ cmd_mcc(on)
      PROVE  AnswersOK' /\ LinkOK'
  <2>1. /\ Answer("ok") \/ Answer("fail")
        /\ UNCHANGED <<errors, link, shared, cache, timer, loading>>
    BY <1>7, Zenon DEF cmd_use_mcc, cmd_mcc
  <2> QED
    BY <1>1, <2>1, AnswerOK
<1>8. ASSUME NEW on \in BOOLEAN, cmd_scan_cache(on)
      PROVE  AnswersOK' /\ LinkOK'
  <2>1. PICK done \in BOOLEAN :
          /\ Answer("ok")
          /\ cache' = CASE on /\ done -> [on |-> TRUE, file |-> TRUE]
                        [] on /\ ~done -> cache
                        [] OTHER -> [on |-> FALSE, file |-> cache.file /\ ~done]
          /\ UNCHANGED <<errors, link, shared, p2p, timer, loading>>
    BY <1>8, Zenon DEF cmd_scan_cache
  <2> DEFINE f == cache.file /\ ~done
  <2>2. f \in BOOLEAN
    OBVIOUS
  <2>3. \/ cache' = [on |-> TRUE, file |-> TRUE]
        \/ cache' = cache
        \/ cache' = [on |-> FALSE, file |-> f]
    BY <2>1, Zenon
  <2> HIDE DEF f
  <2>4. cache' \in [on : BOOLEAN, file : BOOLEAN]
    <3>1. CASE cache' = [on |-> TRUE, file |-> TRUE]
      BY <3>1
    <3>2. CASE cache' = cache
      BY <3>2 DEF LinkOK
    <3>3. CASE cache' = [on |-> FALSE, file |-> f]
      BY <2>2, <3>3
    <3> QED
      BY <2>3, <3>1, <3>2, <3>3
  <2>5. AnswersOK'
    BY <2>1, AnswerOK
  <2> QED
    BY <2>1, <2>4, <2>5 DEF LinkOK
<1>9. ASSUME NEW cap, cmd_set_cap(cap) PROVE AnswersOK' /\ LinkOK'
  BY <1>1, <1>9, AnswerOK DEF cmd_set_cap
<1>10. CASE cmd_miracast \/ cmd_private
  <2>1. /\ private_ioctl /\ Receive /\ UNCHANGED printed
        /\ UNCHANGED <<link, shared, cache, timer, loading>>
    BY <1>10 DEF cmd_miracast, cmd_private, rest
  <2>2. AnswersOK'
    BY <2>1, PrivateOK, ReceiveOK DEF AnswersOK
  <2> QED
    BY <1>1, <2>1, <2>2
<1>11. CASE driver_answers \/ recv_valid \/ recv_fails
  BY <1>1, <1>11
     DEF driver_answers, recv_valid, recv_fails, errors, rest, AnswersOK
<1>12. CASE recv_end
  <2>1. Finish(call, "ok") \/ Finish(call, "fail")
    BY <1>12, LastMessage
  <2>2. commands' \in 0..MaxCommands
    BY <1>12 DEF recv_end, AnswersOK
  <2> QED
    BY <2>1, <2>2, FinishOK
<1>13. CASE Tick \/ scan_loading_timeout
  <2>1. timer' \in 0..ScanTimeout
    BY <1>13, WpaAssumption DEF Tick, scan_loading_timeout, LinkOK
  <2>2. loading' \in BOOLEAN
    BY <1>13, Zenon DEF Tick, scan_loading_timeout, LinkOK
  <2> QED
    BY <1>13, <2>1, <2>2
       DEF Tick, scan_loading_timeout, errors, AnswersOK, LinkOK
<1>14. CASE Station
  <2>1. PICK freq \in Freqs \cup {0} :
          /\ shared' = freq
          /\ link' = [link EXCEPT !.associated = (freq # 0)]
    BY <1>14, Zenon DEF Station
  <2> DEFINE b == freq # 0
  <2>2. b \in BOOLEAN /\ link' = [link EXCEPT !.associated = b]
    BY <2>1
  <2> HIDE DEF b
  <2>3. link' \in [up : BOOLEAN, told : {"none", "STARTED", "STOPPED"},
                   associated : BOOLEAN]
    BY <2>2 DEF LinkOK
  <2>4. /\ UNCHANGED <<printed, answer, drv_errors, failures, commands>>
        /\ UNCHANGED <<cache, timer, loading>>
    BY <1>14 DEF Station, errors
  <2> QED
    BY <2>1, <2>3, <2>4 DEF AnswersOK, LinkOK
<1>15. CASE UNCHANGED vars
  BY <1>15 DEF vars, errors, rest, AnswersOK, LinkOK
<1> QED
  BY <1>2, <1>3, <1>4, <1>5, <1>6, <1>7, <1>8, <1>9, <1>10, <1>11, <1>12,
       <1>13, <1>14, <1>15
     DEF Next, driver_cmd, send_and_recv_msgs

----------------------------------------------------------------------------
(* The theorems.                                                           *)

\* The types, and requests and answers in step.
ExchangeInv == TypeOK /\ Exchange

\* ExchangeInv is an invariant, whatever attributes the driver leaves out and
\* whatever messages are lost.
LEMMA ExchangeHolds == Spec => []ExchangeInv
<1>1. Init => ExchangeInv
  <2> SUFFICES ASSUME Init PROVE ExchangeInv
    OBVIOUS
  <2>0. PICK configured \in BOOLEAN : \E op \in Oper(configured) :
          p2p = [op |-> op, channels |-> {}, from |-> 0,
                 configured |-> configured, use_mcc |-> FALSE, mcc |-> FALSE,
                 dev_capab |-> 0]
    BY DEF Init
  <2>1. PICK op \in Oper(configured) :
          p2p = [op |-> op, channels |-> {}, from |-> 0,
                 configured |-> configured, use_mcc |-> FALSE, mcc |-> FALSE,
                 dev_capab |-> 0]
    BY <2>0
  <2>2. op \in Nat \X Nat
    BY DEF Oper
  <2>3. p2p \in P2pData
    BY <2>1, <2>2 DEF P2pData
  <2>4. NetlinkOK /\ AnswersOK /\ LinkOK
    <3>1. NetlinkOK
      <4>1. /\ call = "none" /\ replies = <<>> /\ asked = FALSE /\ filled = {}
            /\ sent = {} /\ lost = FALSE
        BY DEF Init
      <4>2. replies \in Seq(Messages)
        BY <4>1
      <4> QED
        BY <4>1, <4>2 DEF NetlinkOK
    <3>2. AnswersOK
      BY WpaAssumption DEF Init, AnswersOK
    <3>3. LinkOK
      <4>1. 0 \in 0..ScanTimeout
        BY WpaAssumption
      <4> QED
        BY <4>1 DEF Init, LinkOK
    <3> QED
      BY <3>1, <3>2, <3>3
  <2>5. Exchange
    BY DEF Init, Exchange
  <2> QED
    BY <2>3, <2>4, <2>5 DEF ExchangeInv, TypeOK
<1>2. ExchangeInv /\ [Next]_vars => ExchangeInv'
  <2> SUFFICES ASSUME ExchangeInv, [Next]_vars PROVE ExchangeInv'
    OBVIOUS
  <2>1. NetlinkOK /\ AnswersOK /\ LinkOK /\ p2p \in P2pData /\ Exchange
    BY DEF ExchangeInv, TypeOK
  <2>2. NetlinkOK' /\ Exchange'
    BY <2>1, ExchangeStep
  <2>3. AnswersOK' /\ LinkOK'
    BY <2>1, AnswersStep
  <2>4. p2p' \in P2pData
    BY <2>1, ChannelStep
  <2> QED
    BY <2>2, <2>3, <2>4 DEF ExchangeInv, TypeOK
<1> QED
  BY <1>1, <1>2, PTL DEF Spec

\* WpaDriver is type correct: the capability stays a byte and the count of
\* errors within its limit, for every set of frequencies and attributes.
THEOREM TypeCorrect == Spec => []TypeOK
<1>1. ExchangeInv => TypeOK
  BY DEF ExchangeInv
<1> QED
  BY <1>1, ExchangeHolds, PTL

\* Statistics are printed only from a buffer that holds exactly what was
\* received of the answer to this very request, for every set of attributes and
\* whatever the driver leaves out or refuses and nl_recvmsgs loses; a request
\* that could not be sent, or was refused, prints none.
THEOREM StatisticsHold == Spec => []StatisticsFromDriver
<1>1. Init => StatisticsFromDriver
  BY DEF Init, StatisticsFromDriver
<1>2. ExchangeInv /\ StatisticsFromDriver /\ [Next]_vars
        => StatisticsFromDriver'
  BY PrintedStep DEF ExchangeInv
<1> QED
  BY <1>1, <1>2, ExchangeHolds, PTL DEF Spec

\* For every set of frequencies that the station or a command may name, the P2P
\* channel is one of its operating class whenever it was last set from the
\* frequency of a channel or by the return to MCC; priv_p2p_freq_to_channel
\* knows all those frequencies.
THEOREM ChannelHolds == Spec => []ChannelOfClass
<1>1. Init => Fits(p2p)
  <2> SUFFICES ASSUME Init PROVE Fits(p2p)
    OBVIOUS
  <2>0. PICK configured \in BOOLEAN : \E op \in Oper(configured) :
          p2p = [op |-> op, channels |-> {}, from |-> 0,
                 configured |-> configured, use_mcc |-> FALSE, mcc |-> FALSE,
                 dev_capab |-> 0]
    BY DEF Init
  <2>1. PICK op \in Oper(configured) :
          p2p = [op |-> op, channels |-> {}, from |-> 0,
                 configured |-> configured, use_mcc |-> FALSE, mcc |-> FALSE,
                 dev_capab |-> 0]
    BY <2>0
  <2>2. Proper(op)
    BY ProperClasses DEF Oper
  <2> QED
    BY <2>1, <2>2 DEF Fits, Proper
<1>2. ExchangeInv /\ Fits(p2p) /\ [Next]_vars => Fits(p2p)'
  BY ChannelStep DEF ExchangeInv, TypeOK
<1>3. Fits(p2p) => ChannelOfClass
  BY DEF Fits, ChannelOfClass
<1> QED
  BY <1>1, <1>2, <1>3, ExchangeHolds, PTL DEF Spec

=============================================================================
