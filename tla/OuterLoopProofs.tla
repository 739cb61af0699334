-------------------------- MODULE OuterLoopProofs ---------------------------
(***************************************************************************)
(* Proofs about the loops of the program that wait for lines: the IRC      *)
(* client, whose lines are addressed and not more than the server allows,  *)
(* for every table of channels and every rate, and the main loop, which    *)
(* keeps what its arguments ask for, whatever they are.                    *)
(***************************************************************************)
EXTENDS Irc, MainLoop, TLAPS, WellFoundedInduction

-----------------------------------------------------------------------------
(* The IRC client.                                                         *)
(*                                                                         *)
(* The rate.  A message is only ever sent when next_message_time has come, *)
(* because a line that was begun keeps the time from moving on.  Whenever  *)
(* k messages have been sent since a time, the first of them set           *)
(* next_message_time to no less than that time less the advance, and each  *)
(* of the others added a period (Paced); at the next one it has been       *)
(* reached, which bounds k.                                                *)
(*                                                                         *)
(* The lines.  Unless something was printed into it, a line that was begun *)
(* starts with a prefix and goes on with text, and there is none when      *)
(* new_line says so (Begun).                                               *)

Times == 0 .. MaxTime

Pieces == [piece : {"prefix", "text", "pong"}, to : STRING \cup {""}]

ClientTypeOK ==
  /\ now \in Times /\ next_message_time \in Int
  /\ new_line \in BOOLEAN /\ torn \in BOOLEAN
  /\ last_read_channel \in DOMAIN Table
  /\ line \in Seq(Pieces)
  /\ count \in [Times -> Nat]

\* The messages since time a.
Since(a) == count[now] - count[a - 1]

\* The rate: what has been sent since a time is paid for.
Paced ==
  /\ ~new_line => now >= next_message_time
  /\ \A t \in now .. MaxTime : count[t] = count[now]
  /\ \A a \in 1 .. now :
       /\ Since(a) >= 0
       /\ Since(a) > 0 =>
            MESSAGE_PERIOD * (Since(a) - 1) <=
              next_message_time + MESSAGE_PERIOD * MESSAGE_ADVANCE - a

\* The property, about the rate.
RateKept ==
  \A a \in 1 .. MaxTime : \A b \in a .. MaxTime :
    MESSAGE_PERIOD * (count[b] - count[a - 1] - MESSAGE_ADVANCE - 2) <= b - a

\* What is in the line, unless it is torn.
Begun ==
  \/ torn
  \/ IF new_line THEN line = <<>>
     ELSE line # <<>> /\ IsAPrefix(line[1]) /\ \A i \in 2 .. Len(line) : line[i].piece = "text"

\* The property, about the lines.
Addressed == sent.torn \/ WellFormed(sent.pieces)

IrcInv == ClientTypeOK /\ Paced /\ RateKept /\ Begun /\ Addressed

-----------------------------------------------------------------------------
\* A set of naturals has a least member, and Min() is it.
LEMMA LeastMember ==
  ASSUME NEW T \in SUBSET Nat, T # {}
  PROVE  \E m \in T : \A y \in T : m <= y
<1> DEFINE R == OpToRel(<, Nat)
<1>1. IsWellFoundedOn(R, Nat)
  BY NatLessThanWellFounded
<1>2. \A x, y \in Nat : x < y => <<x, y>> \in R
  BY DEF OpToRel
<1> HIDE DEF R
<1>3. PICK m \in T : \A y \in T : ~(<<y, m>> \in R)
  BY <1>1, WFMin
<1>4. ASSUME NEW y \in T
      PROVE  m <= y
  <2>1. m \in Nat /\ y \in Nat
    OBVIOUS
  <2>2. ~(y < m)
    BY <1>2, <1>3, <2>1, Zenon
  <2> QED BY <2>1, <2>2, SMT
<1> QED BY <1>4

LEMMA MinIsMember ==
  ASSUME NEW T \in SUBSET Nat, T # {}
  PROVE  Min(T) \in T
<1>1. \E m \in T : \A y \in T : m <= y
  BY LeastMember
<1> QED BY <1>1 DEF Min

\* A message is of a channel of the table.
LEMMA ChannelInTable ==
  ASSUME NEW target, match_channel(target) # 0
  PROVE  match_channel(target) \in DOMAIN Table
<1> DEFINE places == {i \in DOMAIN Table : Matches(target, Table[i])}
<1>1. places \in SUBSET Nat /\ places \subseteq DOMAIN Table
  BY IrcAssumption
<1>2. places # {} /\ match_channel(target) = Min(places)
  BY DEF match_channel
<1> QED BY <1>1, <1>2, MinIsMember

\* The pieces that are written.
LEMMA PiecesOK ==
  ASSUME last_read_channel \in DOMAIN Table
  PROVE  /\ Prefix \in Pieces /\ Text \in Pieces /\ Pong \in Pieces
         /\ IsAPrefix(Prefix) /\ Text.piece = "text"
<1>1. Table[last_read_channel] \in STRING
  BY IrcAssumption
<1>2. Prefix \in Pieces
  BY <1>1 DEF Prefix, Pieces
<1>3. Text \in Pieces /\ Pong \in Pieces
  BY DEF Text, Pong, Pieces
<1>4. IsAPrefix(Prefix) /\ Text.piece = "text"
  BY DEF IsAPrefix, Prefix, Text
<1> QED BY <1>2, <1>3, <1>4

\* A line with nothing in it.
LEMMA EmptyLine == <<>> \in Seq(Pieces)
  OBVIOUS

\* What an appended sequence is.
LEMMA Appended ==
  ASSUME NEW S, NEW s \in Seq(S), NEW t \in Seq(S)
  PROVE  /\ s \o t \in Seq(S) /\ Len(s \o t) = Len(s) + Len(t)
         /\ \A i \in 1 .. Len(s) : (s \o t)[i] = s[i]
         /\ \A i \in Len(s) + 1 .. Len(s) + Len(t) : (s \o t)[i] = t[i - Len(s)]
         /\ s = <<>> => s \o t = t
  OBVIOUS

\* A prefix with text behind it is a line that the server understands.
LEMMA TextFollows ==
  ASSUME NEW l \in Seq(Pieces), l # <<>>, IsAPrefix(l[1]),
         \A i \in 2 .. Len(l) : l[i].piece = "text",
         NEW x \in Pieces, x.piece = "text"
  PROVE  /\ l \o <<x>> \in Seq(Pieces) /\ l \o <<x>> # <<>> /\ IsAPrefix((l \o <<x>>)[1])
         /\ \A i \in 2 .. Len(l \o <<x>>) : (l \o <<x>>)[i].piece = "text"
<1>1. /\ <<x>> \in Seq(Pieces) /\ Len(<<x>>) = 1 /\ <<x>>[1] = x
      /\ Len(l) \in Nat /\ Len(l) >= 1
  OBVIOUS
<1>2. /\ l \o <<x>> \in Seq(Pieces) /\ Len(l \o <<x>>) = Len(l) + 1
      /\ \A i \in 1 .. Len(l) : (l \o <<x>>)[i] = l[i]
      /\ (l \o <<x>>)[Len(l) + 1] = x
  BY <1>1, Appended
<1>3. (l \o <<x>>)[1] = l[1]
  BY <1>1, <1>2
<1>4. ASSUME NEW i \in 2 .. Len(l) + 1 PROVE (l \o <<x>>)[i].piece = "text"
  BY <1>1, <1>2
<1> QED BY <1>1, <1>2, <1>3, <1>4

\* The two pieces of a line of its own.
LEMMA OwnLine ==
  ASSUME last_read_channel \in DOMAIN Table
  PROVE  /\ <<Prefix, Text>> \in Seq(Pieces) /\ <<Prefix, Text>> # <<>>
         /\ IsAPrefix(<<Prefix, Text>>[1])
         /\ \A i \in 2 .. Len(<<Prefix, Text>>) : <<Prefix, Text>>[i].piece = "text"
  BY PiecesOK

-----------------------------------------------------------------------------
\* Products with the period.
LEMMA Periods ==
  ASSUME NEW k \in Int, NEW P \in Nat, NEW A \in Nat
  PROVE  /\ P * A \in Nat /\ P * k \in Int /\ P * (k - 1) \in Int
         /\ P * k = P * (k - 1) + P
         /\ P * (k + 1 - A - 2) = P * (k - 1) - P * A
  OBVIOUS

\* A product with a number that is not positive.
LEMMA NotPositive ==
  ASSUME NEW k \in Int, k <= 0, NEW P \in Nat
  PROVE  P * k <= 0
  OBVIOUS

\* A message is sent when the time for it has come.
LEMMA SendKeepsRate ==
  ASSUME ClientTypeOK, Paced, RateKept, now >= next_message_time,
         irc_message_sent, now' = now, new_line' = TRUE
  PROVE  Paced' /\ RateKept' /\ next_message_time' \in Int /\ count' \in [Times -> Nat]
<1> DEFINE P == MESSAGE_PERIOD
           A == MESSAGE_ADVANCE
           c == [t \in 0 .. MaxTime |-> IF t < now THEN count[t] ELSE count[t] + 1]
           x == Later(now - P * A, next_message_time + P)
<1>1. count' = c /\ next_message_time' = x
  BY DEF irc_message_sent, OneMore
<1>2. P \in Nat /\ A \in Nat /\ P * A \in Nat /\ MaxTime \in Nat
  BY IrcAssumption, Periods
<1>3. now \in Nat /\ now <= MaxTime /\ next_message_time \in Int /\ next_message_time <= now
  BY <1>2 DEF ClientTypeOK, Times
<1> HIDE DEF P, A
<1>4. x \in Int /\ x >= now - P * A /\ x >= next_message_time + P
  BY <1>2, <1>3 DEF Later
<1>5. c \in [Times -> Nat]
  BY DEF ClientTypeOK, Times
<1>6. /\ \A t \in 0 .. now - 1 : c[t] = count[t]
      /\ \A t \in now .. MaxTime : c[t] = count[now] + 1
  BY <1>2, <1>3 DEF Paced
<1> HIDE DEF c, x
<1>7. ASSUME NEW a \in 1 .. now
      PROVE  /\ Since(a) \in Nat /\ c[now] - c[a - 1] = Since(a) + 1
             /\ P * Since(a) <= x + P * A - a
             /\ P * (Since(a) + 1 - A - 2) <= now - a
  <2> DEFINE k == Since(a)
  <2>1. a \in Nat /\ a >= 1 /\ a <= now /\ a - 1 \in 0 .. now - 1 /\ a - 1 \in Times /\ now \in Times
    BY <1>2, <1>3 DEF Times
  <2>2. k \in Nat /\ c[now] - c[a - 1] = k + 1
    <3>1. count[now] \in Nat /\ count[a - 1] \in Nat
      BY <2>1 DEF ClientTypeOK
    <3>2. k >= 0 /\ k = count[now] - count[a - 1]
      BY DEF Paced, Since
    <3>3. c[now] = count[now] + 1 /\ c[a - 1] = count[a - 1]
      BY <1>2, <1>3, <1>6, <2>1
    <3> QED BY <3>1, <3>2, <3>3
  <2>3. k > 0 => P * (k - 1) <= next_message_time + P * A - a
    BY DEF Paced, P, A
  <2> HIDE DEF k
  <2>4. /\ P * k \in Int /\ P * (k - 1) \in Int /\ P * k = P * (k - 1) + P
        /\ P * (k + 1 - A - 2) = P * (k - 1) - P * A
    BY <1>2, <2>2, Periods
  <2>5. P * k <= x + P * A - a /\ P * (k + 1 - A - 2) <= now - a
    <3>1. CASE k = 0
      <4>1. P * k <= 0 /\ P * (k - 1) <= 0
        BY <1>2, <3>1, NotPositive
      <4> QED BY <1>2, <1>3, <1>4, <2>1, <2>4, <4>1
    <3>2. CASE k > 0
      BY <1>2, <1>3, <1>4, <2>1, <2>3, <2>4, <3>2
    <3> QED BY <2>2, <3>1, <3>2
  <2> QED BY <2>2, <2>5 DEF k
<1>8. Paced'
  <2>1. \A t \in now .. MaxTime : c[t] = c[now]
    BY <1>2, <1>3, <1>6
  <2>2. ASSUME NEW a \in 1 .. now
        PROVE  c[now] - c[a - 1] >= 0 /\ P * (c[now] - c[a - 1] - 1) <= x + P * A - a
    <3>1. c[now] - c[a - 1] - 1 = Since(a)
      BY <1>7
    <3> QED BY <1>7, <3>1
  <2> QED BY <1>1, <2>1, <2>2 DEF Paced, Since, P, A
<1>9. ASSUME NEW a \in 1 .. MaxTime, NEW b \in a .. MaxTime
      PROVE  P * (c[b] - c[a - 1] - A - 2) <= b - a
  <2>0. a \in Nat /\ b \in Nat /\ a >= 1 /\ a <= b /\ b <= MaxTime
    BY <1>2
  <2>1. CASE b < now
    <3>1. c[b] = count[b] /\ c[a - 1] = count[a - 1]
      BY <1>2, <1>3, <1>6, <2>0, <2>1
    <3> QED BY <3>1 DEF RateKept, P, A
  <2>2. CASE b >= now /\ a <= now
    <3>1. a \in 1 .. now /\ c[b] = c[now]
      BY <1>2, <1>3, <1>6, <2>0, <2>2
    <3>2. c[b] - c[a - 1] - A - 2 = Since(a) + 1 - A - 2
      <4>1. c[now] \in Nat /\ c[a - 1] \in Nat /\ Since(a) \in Nat
        BY <1>2, <1>3, <1>5, <1>7, <3>1 DEF Times
      <4> QED BY <1>2, <1>7, <3>1, <4>1
    <3>3. P * (c[b] - c[a - 1] - A - 2) <= now - a
      BY <1>7, <3>1, <3>2
    <3>4. Since(a) + 1 - A - 2 \in Int
      BY <1>2, <1>7, <3>1
    <3>5. P * (c[b] - c[a - 1] - A - 2) \in Int
      BY <1>2, <3>2, <3>4
    <3> QED BY <1>3, <2>0, <2>2, <3>3, <3>5
  <2>3. CASE a > now
    <3>1. c[b] - c[a - 1] - A - 2 = 0 - A - 2
      <4>1. b \in now .. MaxTime /\ a - 1 \in now .. MaxTime /\ count[now] \in Nat
        BY <1>2, <1>3, <2>0, <2>3 DEF ClientTypeOK, Times
      <4> QED BY <1>2, <1>6, <4>1
    <3>2. P * (0 - A - 2) <= 0
      BY <1>2, NotPositive
    <3>3. P * (0 - A - 2) \in Int
      BY <1>2
    <3> QED BY <2>0, <3>1, <3>2, <3>3
  <2> QED BY <1>3, <2>0, <2>1, <2>2, <2>3
<1>10. RateKept'
  BY <1>1, <1>9 DEF RateKept, P, A
<1> QED BY <1>1, <1>4, <1>5, <1>8, <1>10

\* Nothing is sent, and a line is begun only when the time for it has come.
LEMMA RateStays ==
  ASSUME ClientTypeOK, Paced, RateKept, UNCHANGED <<now, next_message_time, count>>,
         new_line' = new_line \/ new_line' = TRUE \/ now >= next_message_time
  PROVE  Paced' /\ RateKept'
  BY DEF Paced, RateKept, Since

\* Time passes.
LEMMA TickKeepsRate ==
  ASSUME ClientTypeOK, Paced, RateKept, Tick
  PROVE  Paced' /\ RateKept' /\ now' \in Times
<1> DEFINE n == now + 1
<1>1. /\ now' = n /\ next_message_time' = next_message_time /\ count' = count
      /\ new_line' = new_line
  BY DEF Tick
<1>2. now \in Nat /\ n \in 1 .. MaxTime /\ next_message_time \in Int /\ MaxTime \in Nat
  BY IrcAssumption DEF ClientTypeOK, Times, Tick
<1>3. \A t \in n .. MaxTime : count[t] = count[n]
  BY <1>2 DEF Paced
<1>4. ASSUME NEW a \in 1 .. n
      PROVE  /\ count[n] - count[a - 1] >= 0
             /\ count[n] - count[a - 1] > 0 =>
                  MESSAGE_PERIOD * (count[n] - count[a - 1] - 1) <=
                    next_message_time + MESSAGE_PERIOD * MESSAGE_ADVANCE - a
  <2>1. count[n] = count[now] /\ count[now] \in Nat
    BY <1>2 DEF Paced, ClientTypeOK, Times
  <2>2. CASE a \in 1 .. now
    BY <2>1, <2>2 DEF Paced, Since
  <2>3. CASE a = n
    BY <1>2, <2>1, <2>3
  <2> QED BY <1>2, <2>2, <2>3
<1>5. ~new_line => n >= next_message_time
  BY <1>2 DEF Paced
<1> HIDE DEF n
<1>6. Paced'
  BY <1>1, <1>3, <1>4, <1>5 DEF Paced, Since
<1>7. RateKept'
  BY <1>1 DEF RateKept
<1> QED BY <1>1, <1>2, <1>6, <1>7 DEF Times

-----------------------------------------------------------------------------
\* Text behind what is in the line, or behind the prefix.
LEMMA TextWritten ==
  ASSUME ClientTypeOK, Begun
  PROVE  /\ line \o Begin \o <<Text>> \in Seq(Pieces)
         /\ \/ torn
            \/ /\ line \o Begin \o <<Text>> # <<>>
               /\ IsAPrefix((line \o Begin \o <<Text>>)[1])
               /\ \A i \in 2 .. Len(line \o Begin \o <<Text>>) :
                    (line \o Begin \o <<Text>>)[i].piece = "text"
<1>1. Prefix \in Pieces /\ Text \in Pieces /\ IsAPrefix(Prefix) /\ Text.piece = "text"
  BY PiecesOK DEF ClientTypeOK
<1>2. line \in Seq(Pieces) /\ Begin \in Seq(Pieces) /\ <<Text>> \in Seq(Pieces)
  BY <1>1 DEF ClientTypeOK, Begin
<1> DEFINE l == line \o Begin
<1>3. l \in Seq(Pieces) /\ l \o <<Text>> \in Seq(Pieces)
  BY <1>2, Appended
<1>4. ASSUME ~torn
      PROVE  l # <<>> /\ IsAPrefix(l[1]) /\ \A i \in 2 .. Len(l) : l[i].piece = "text"
  <2>1. CASE new_line
    <3>1. l = <<Prefix>>
      BY <1>2, <1>4, <2>1, Appended DEF Begun, Begin
    <3> QED BY <1>1, <3>1
  <2>2. CASE ~new_line
    <3>1. l = line
      BY <1>2, <2>2 DEF Begin
    <3> QED BY <1>4, <2>2, <3>1 DEF Begun
  <2> QED BY <2>1, <2>2
<1> HIDE DEF l
<1>5. ASSUME ~torn
      PROVE  /\ l \o <<Text>> # <<>> /\ IsAPrefix((l \o <<Text>>)[1])
             /\ \A i \in 2 .. Len(l \o <<Text>>) : (l \o <<Text>>)[i].piece = "text"
  BY <1>1, <1>3, <1>4, <1>5, TextFollows
<1> QED BY <1>3, <1>5 DEF l

\* Pieces that are printed over whatever is in the line.
LEMMA PrintKeeps ==
  ASSUME ClientTypeOK, Begun, NEW p \in Seq(Pieces), WellFormed(p),
         PrintLine(p), new_line' = new_line
  PROVE  Begun' /\ Addressed' /\ line' \in Seq(Pieces) /\ torn' \in BOOLEAN
<1>1. /\ sent' = [pieces |-> line \o p, torn |-> torn \/ ~new_line]
      /\ line' = <<>> /\ torn' = (torn \/ ~new_line)
  BY DEF PrintLine
<1>2. Addressed'
  <2>1. CASE torn \/ ~new_line
    BY <1>1, <2>1 DEF Addressed
  <2>2. CASE ~(torn \/ ~new_line)
    <3>1. line \o p = p
      BY <2>2, Appended DEF Begun, ClientTypeOK
    <3> QED BY <1>1, <3>1 DEF Addressed
  <2> QED BY <2>1, <2>2
<1>3. Begun'
  BY <1>1 DEF Begun
<1> QED BY <1>1, <1>2, <1>3 DEF ClientTypeOK

\* What is printed so: the answer to a ping, and a whole line.
LEMMA Printed ==
  ASSUME ClientTypeOK
  PROVE  /\ <<Pong>> \in Seq(Pieces) /\ WellFormed(<<Pong>>)
         /\ <<Prefix, Text>> \in Seq(Pieces) /\ WellFormed(<<Prefix, Text>>)
  BY PiecesOK, OwnLine DEF ClientTypeOK, WellFormed

\* The client starts with nothing sent.
LEMMA IrcInvInit == IrcInit => IrcInv
<1> SUFFICES ASSUME IrcInit PROVE IrcInv
  OBVIOUS
<1>1. /\ now = MESSAGE_PERIOD * (MESSAGE_ADVANCE + 1) /\ now \in Nat /\ now <= MaxTime
      /\ MESSAGE_PERIOD \in Nat /\ MESSAGE_ADVANCE \in Nat /\ MaxTime \in Nat
  BY IrcAssumption DEF IrcInit
<1>2. \A t \in 0 .. MaxTime : count[t] = 0
  BY DEF IrcInit
<1>3. ClientTypeOK
  <2>1. 1 \in DOMAIN Table
    BY IrcAssumption
  <2>2. now \in Times /\ next_message_time \in Int /\ count \in [Times -> Nat]
    BY <1>1 DEF IrcInit, Times
  <2>3. line \in Seq(Pieces) /\ new_line \in BOOLEAN /\ torn \in BOOLEAN
    BY EmptyLine DEF IrcInit
  <2> QED BY <2>1, <2>2, <2>3 DEF IrcInit, ClientTypeOK
<1>4. Paced
  BY <1>1, <1>2 DEF IrcInit, Paced, Since
<1>5. RateKept
  <2> SUFFICES ASSUME NEW a \in 1 .. MaxTime, NEW b \in a .. MaxTime
               PROVE  MESSAGE_PERIOD * (0 - 0 - MESSAGE_ADVANCE - 2) <= b - a
    BY <1>1, <1>2 DEF RateKept
  <2>1. MESSAGE_PERIOD * (0 - 0 - MESSAGE_ADVANCE - 2) <= 0
    BY <1>1, NotPositive
  <2>2. b - a >= 0 /\ MESSAGE_PERIOD * (0 - 0 - MESSAGE_ADVANCE - 2) \in Int /\ b - a \in Int
    BY <1>1
  <2> QED BY <2>1, <2>2
<1>6. Begun /\ Addressed
  BY DEF IrcInit, Begun, Addressed, WellFormed
<1> QED BY <1>3, <1>4, <1>5, <1>6 DEF IrcInv

\* IrcInv is inductive.
LEMMA IrcInvNext == IrcInv /\ [IrcNext]_client => IrcInv'
<1> SUFFICES ASSUME IrcInv, [IrcNext]_client PROVE IrcInv'
  OBVIOUS
<1>0. ClientTypeOK /\ Paced /\ RateKept /\ Begun /\ Addressed
  BY DEF IrcInv
<1>1. CASE Tick
  <2>1. UNCHANGED <<next_message_time, new_line, last_read_channel, line, sent, torn, count>>
    BY <1>1 DEF Tick
  <2>2. Begun' /\ Addressed'
    BY <1>0, <2>1 DEF Begun, Addressed
  <2> QED BY <1>0, <1>1, <2>1, <2>2, TickKeepsRate DEF IrcInv, ClientTypeOK
<1>2. ASSUME UNCHANGED <<now, next_message_time, new_line, line, sent, torn, count>>,
             last_read_channel' \in DOMAIN Table
      PROVE  IrcInv'
  <2>1. Begun' /\ Addressed'
    BY <1>0, <1>2 DEF Begun, Addressed
  <2>2. Paced' /\ RateKept'
    BY <1>0, <1>2, RateStays
  <2> QED BY <1>0, <1>2, <2>1, <2>2 DEF IrcInv, ClientTypeOK
<1>3. ASSUME UNCHANGED <<now, next_message_time, new_line, last_read_channel, count>>,
             PrintLine(<<Pong>>) \/ PrintLine(<<Prefix, Text>>)
      PROVE  IrcInv'
  <2>1. Begun' /\ Addressed' /\ line' \in Seq(Pieces) /\ torn' \in BOOLEAN
    BY <1>0, <1>3, Printed, PrintKeeps
  <2>2. Paced' /\ RateKept'
    BY <1>0, <1>3, RateStays
  <2> QED BY <1>0, <1>3, <2>1, <2>2 DEF IrcInv, ClientTypeOK
<1>4. CASE ReadPushed \/ irc_io_unread \/ UNCHANGED client
  BY <1>0, <1>2, <1>4 DEF ReadPushed, irc_io_unread, client, ClientTypeOK
<1>5. ASSUME NEW t \in Targets, Message(t)
      PROVE  IrcInv'
  BY <1>2, <1>5, ChannelInTable DEF Message
<1>6. CASE Ping \/ Prompt \/ Error
  BY <1>3, <1>6 DEF Ping, Prompt, Error, Throw
<1>7. CASE WriteText
  <2>1. /\ UNCHANGED <<now, next_message_time, last_read_channel, sent, torn, count>>
        /\ line' = line \o Begin \o <<Text>> /\ new_line' = FALSE /\ ~TooEarly
    BY <1>7 DEF WriteText
  <2>2. now >= next_message_time
    BY <1>0, <2>1 DEF TooEarly, irc_should_wait, Paced, ClientTypeOK, Times
  <2>3. Paced' /\ RateKept'
    BY <1>0, <2>1, <2>2, RateStays
  <2>4. Begun' /\ Addressed' /\ line' \in Seq(Pieces)
    BY <1>0, <2>1, TextWritten DEF Begun, Addressed
  <2> QED BY <1>0, <2>1, <2>3, <2>4 DEF IrcInv, ClientTypeOK
<1>8. CASE WriteNewline
  <2>1. /\ ~new_line /\ irc_message_sent /\ UNCHANGED <<now, last_read_channel>>
        /\ sent' = [pieces |-> line, torn |-> torn]
        /\ line' = <<>> /\ new_line' = TRUE /\ torn' = FALSE
    BY <1>8 DEF WriteNewline, EndLine
  <2>2. now >= next_message_time
    BY <1>0, <2>1 DEF Paced
  <2>3. Paced' /\ RateKept' /\ next_message_time' \in Int /\ count' \in [Times -> Nat]
    BY <1>0, <2>1, <2>2, SendKeepsRate
  <2>4. Begun' /\ Addressed'
    BY <1>0, <2>1 DEF Begun, Addressed, WellFormed
  <2>5. ClientTypeOK'
    BY <1>0, <2>1, <2>3, EmptyLine DEF ClientTypeOK
  <2> QED BY <2>3, <2>4, <2>5 DEF IrcInv
<1>9. CASE Succeed
  <2>1. /\ new_line /\ UNCHANGED <<now, next_message_time, new_line, last_read_channel, torn, count>>
        /\ sent' = [pieces |-> line \o <<Prefix, Text>>, torn |-> torn] /\ line' = <<>>
    BY <1>9 DEF Succeed
  <2>2. Paced' /\ RateKept'
    BY <1>0, <2>1, RateStays
  <2>3. torn \/ line \o <<Prefix, Text>> = <<Prefix, Text>>
    <3>1. line \in Seq(Pieces) /\ <<Prefix, Text>> \in Seq(Pieces)
      BY <1>0, Printed DEF ClientTypeOK
    <3>2. line = <<>> => line \o <<Prefix, Text>> = <<Prefix, Text>>
      BY <3>1, Appended
    <3> QED BY <1>0, <2>1, <3>2 DEF Begun
  <2>4. Begun' /\ Addressed'
    BY <1>0, <2>1, <2>3, Printed DEF Begun, Addressed
  <2>5. ClientTypeOK'
    BY <1>0, <2>1, EmptyLine DEF ClientTypeOK
  <2> QED BY <2>2, <2>4, <2>5 DEF IrcInv
<1>10. CASE Fail
  <2>1. /\ ~TooEarly /\ irc_message_sent /\ UNCHANGED <<now, last_read_channel>>
        /\ sent' = [pieces |-> line \o Begin \o <<Text>>, torn |-> torn]
        /\ line' = <<>> /\ new_line' = TRUE /\ torn' = FALSE
    BY <1>10 DEF Fail
  <2>2. now >= next_message_time
    BY <1>0, <2>1 DEF TooEarly, irc_should_wait, Paced, ClientTypeOK, Times
  <2>3. Paced' /\ RateKept' /\ next_message_time' \in Int /\ count' \in [Times -> Nat]
    BY <1>0, <2>1, <2>2, SendKeepsRate
  <2>4. Begun' /\ Addressed'
    BY <1>0, <2>1, TextWritten DEF Begun, Addressed, WellFormed
  <2>5. ClientTypeOK'
    BY <1>0, <2>1, <2>3, EmptyLine DEF ClientTypeOK
  <2> QED BY <2>3, <2>4, <2>5 DEF IrcInv
<1> QED
  BY <1>1, <1>4, <1>5, <1>6, <1>7, <1>8, <1>9, <1>10 DEF IrcNext

\* Whatever programs write, whatever is said to the client and however the
\* time passes, what it sends is addressed unless it was torn, and no more
\* lines are ended in any time than the periods in it and the advance allow.
THEOREM ClientBehaves == IrcSpec => []LinesAllowed
<1>1. IrcInv => LinesAllowed
  BY DEF IrcInv, RateKept, Addressed, LinesAllowed
<1> QED BY <1>1, IrcInvInit, IrcInvNext, PTL DEF IrcSpec
-----------------------------------------------------------------------------
(* The main loop.                                                          *)
(*                                                                         *)
(* What the arguments ask for is said of their words, and the loop runs    *)
(* lines: Cut says which words a line is made of.  Of the loop, LoopInv    *)
(* says what the lines that have been run have done, so far as commands    *)
(* are run at all, and that memory is allocated for the arguments at most  *)
(* once, with the sizes before the first reinit.                           *)

(* The lines that arguments() makes of the arguments.                      *)

ArgWords == [dash : BOOLEAN, name : STRING]

ArgLines == [cmd : STRING \cup {""}, operands : Seq(STRING)]

\* What arguments() does with a word.
AddWord(ls, w) ==
  IF w.dash THEN Append(ls, Line(w.name, <<>>))
  ELSE IF ls = <<>> THEN <<Expression(<<w.name>>)>>
  ELSE [ls EXCEPT ![Len(ls)].operands = Append(@, w.name)]

LinesTo(g, av, n) == IF n = 0 THEN <<>> ELSE AddWord(g[n - 1], av[n])

\* The function in arguments() exists.
LEMMA ArgumentsUnfold ==
  ASSUME NEW av \in Seq(ArgWords)
  PROVE  \E g : /\ g = [n \in 0 .. Len(av) |-> LinesTo(g, av, n)]
                /\ arguments(av) = g[Len(av)]
<1> DEFINE N == Len(av)
           Upto(n) == \E g : g = [m \in 0 .. n |-> LinesTo(g, av, m)]
           T == {n \in Nat : ~Upto(n)}
<1>. N \in Nat
  OBVIOUS
<1>. HIDE DEF N
<1>1. Upto(0)
  <2> DEFINE g == [m \in 0 .. 0 |-> <<>>]
  <2>1. \A m \in 0 .. 0 : LinesTo(g, av, m) = <<>>
    BY DEF LinesTo
  <2>2. g = [m \in 0 .. 0 |-> LinesTo(g, av, m)]
    BY <2>1
  <2>. HIDE DEF g
  <2>. QED  BY <2>2
<1>2. ASSUME NEW n \in Nat, Upto(n) PROVE Upto(n + 1)
  <2>1. PICK g : g = [m \in 0 .. n |-> LinesTo(g, av, m)]
    BY <1>2
  <2> DEFINE f == [m \in 0 .. n + 1 |-> IF m = n + 1 THEN AddWord(g[n], av[n + 1]) ELSE g[m]]
  <2>2. ASSUME NEW m \in 0 .. n + 1 PROVE f[m] = LinesTo(f, av, m)
    <3>1. m \in Nat /\ (m # n + 1 => m \in 0 .. n) /\ (m # 0 => m - 1 \in 0 .. n /\ m - 1 \in 0 .. n + 1 /\ m - 1 # n + 1)
      BY <1>2
    <3>2. f[m] = IF m = n + 1 THEN AddWord(g[n], av[n + 1]) ELSE g[m]
      OBVIOUS
    <3>3. m # 0 => f[m - 1] = g[m - 1]
      BY <3>1
    <3>. HIDE DEF f
    <3>4. CASE m = n + 1
      <4>1. m # 0 /\ m - 1 = n
        BY <1>2, <3>4
      <4>. QED  BY <3>2, <3>3, <3>4, <4>1 DEF LinesTo
    <3>5. CASE m # n + 1
      <4>1. f[m] = LinesTo(g, av, m)
        BY <2>1, <3>1, <3>2, <3>5
      <4>. QED  BY <3>3, <4>1 DEF LinesTo
    <3>. QED  BY <3>4, <3>5
  <2>3. f = [m \in 0 .. n + 1 |-> LinesTo(f, av, m)]
    <3>1. f = [m \in 0 .. n + 1 |-> f[m]]
      OBVIOUS
    <3>. HIDE DEF f
    <3>. QED  BY <2>2, <3>1
  <2>. HIDE DEF f
  <2>. QED  BY <2>3
<1>. HIDE DEF Upto
<1>3. T = {}
  <2>. SUFFICES ASSUME T # {} PROVE FALSE
    OBVIOUS
  <2>1. T \in SUBSET Nat
    OBVIOUS
  <2>2. PICK n \in T : \A y \in T : n <= y
    BY <2>1, LeastMember
  <2>3. n \in Nat /\ ~Upto(n) /\ n # 0
    BY <1>1, <2>2
  <2>4. n - 1 \in Nat /\ ~(n <= n - 1) /\ n - 1 + 1 = n
    BY <2>3
  <2>5. Upto(n - 1)
    BY <2>2, <2>4
  <2>. QED  BY <1>2, <2>3, <2>4, <2>5
<1>4. Upto(N)
  BY <1>3
<1>5. PICK g : g = [n \in 0 .. N |-> LinesTo(g, av, n)]
  BY <1>4 DEF Upto
<1> DEFINE h == CHOOSE f_1 : f_1 = [n \in 0 .. N |-> LinesTo(f_1, av, n)]
<1>6. h = [n \in 0 .. N |-> LinesTo(h, av, n)]
  BY <1>5
<1>7. arguments(av) = h[N]
  BY DEF arguments, LinesTo, AddWord, N
<1>. HIDE DEF h
<1>. QED  BY <1>6, <1>7 DEF N

-----------------------------------------------------------------------------
\* The last word of line k: where p is where lines start, of n words.
EndOf(ls, p, n, k) == IF k < Len(ls) THEN p[k + 1] - 1 ELSE n

\* Line k starts with word d, and has the words up to word e.
LineFrom(av, l, d, e) ==
  /\ d <= e
  /\ \A q \in d + 1 .. e : ~av[q].dash
  /\ l.cmd = IF av[d].dash THEN av[d].name ELSE ""
  /\ av[d].dash => /\ Len(l.operands) = e - d
                   /\ \A q \in 1 .. e - d : l.operands[q] = av[d + q].name

\* The lines ls of the first n words start at the words p.
Cut(av, n, ls, p) ==
  /\ ls \in Seq(ArgLines)
  /\ n = 0 <=> Len(ls) = 0
  /\ p \in [1 .. Len(ls) -> 1 .. n]
  /\ \A k, m \in 1 .. Len(ls) : k < m => p[k] < p[m]
  /\ \A d \in 1 .. n : av[d].dash => \E k \in 1 .. Len(ls) : p[k] = d
  /\ \A k \in 1 .. Len(ls) : p[k] # 1 => av[p[k]].dash
  /\ \A k \in 1 .. Len(ls) : LineFrom(av, ls[k], p[k], EndOf(ls, p, n, k))

LEMMA SeqFacts ==
  ASSUME NEW S, NEW s \in Seq(S)
  PROVE  Len(s) \in Nat /\ DOMAIN s = 1 .. Len(s)
  OBVIOUS

LEMMA EmptySeq ==
  ASSUME NEW S
  PROVE  <<>> \in Seq(S) /\ Len(<<>>) = 0
  OBVIOUS

LEMMA TailFacts ==
  ASSUME NEW S, NEW s \in Seq(S), s # <<>>
  PROVE  /\ 1 \in 1 .. Len(s) /\ Head(s) = s[1]
         /\ Tail(s) \in Seq(S) /\ Len(Tail(s)) = Len(s) - 1
         /\ \A k \in 1 .. Len(s) - 1 : k + 1 \in 1 .. Len(s) /\ Tail(s)[k] = s[k + 1]
  OBVIOUS

LEMMA NoneBefore == 1 .. 0 = {}
  OBVIOUS

LEMMA WordAppended ==
  ASSUME NEW S, NEW s \in Seq(S), NEW x \in S
  PROVE  /\ Append(s, x) \in Seq(S) /\ Len(Append(s, x)) = Len(s) + 1
         /\ Append(s, x)[Len(s) + 1] = x
         /\ \A k \in 1 .. Len(s) : Append(s, x)[k] = s[k]
  OBVIOUS

\* A word with a dash begins a line.
LEMMA CutDash ==
  ASSUME NEW av \in Seq(ArgWords), NEW n \in Nat, n < Len(av), NEW ls, NEW p, Cut(av, n, ls, p),
         av[n + 1].dash
  PROVE  \E q : Cut(av, n + 1, AddWord(ls, av[n + 1]), q)
<1> DEFINE N == Len(ls)
           new == Line(av[n + 1].name, <<>>)
           q == [k \in 1 .. N + 1 |-> IF k <= N THEN p[k] ELSE n + 1]
           ms == Append(ls, new)
<1>1. /\ ls \in Seq(ArgLines) /\ N \in Nat /\ p \in [1 .. N -> 1 .. n]
      /\ \A k, m \in 1 .. N : k < m => p[k] < p[m]
  BY DEF Cut
<1>2. n + 1 \in 1 .. Len(av) /\ av[n + 1] \in ArgWords
  OBVIOUS
<1>3. new \in ArgLines /\ new.cmd = av[n + 1].name /\ new.operands = <<>>
  <2>1. <<>> \in Seq(STRING)
    OBVIOUS
  <2>. QED  BY <1>2, <2>1 DEF Line, ArgWords, ArgLines
<1>4. AddWord(ls, av[n + 1]) = ms
  BY DEF AddWord
<1>. HIDE DEF new
<1>5. /\ ms \in Seq(ArgLines) /\ Len(ms) = N + 1 /\ ms[N + 1] = new
      /\ \A k \in 1 .. N : ms[k] = ls[k]
  BY <1>1, <1>3
<1>6. /\ \A k \in 1 .. N : q[k] = p[k] /\ q[k] \in Nat /\ 1 <= q[k] /\ q[k] <= n
      /\ q[N + 1] = n + 1
      /\ \A k \in 1 .. N + 1 : k \in 1 .. N \/ k = N + 1
      /\ q = [k \in 1 .. N + 1 |-> q[k]]
  <2>1. q = [k \in 1 .. N + 1 |-> q[k]]
    OBVIOUS
  <2>. HIDE DEF ms
  <2>2. ASSUME NEW k \in 1 .. N
        PROVE  q[k] = p[k] /\ q[k] \in Nat /\ 1 <= q[k] /\ q[k] <= n
    <3>1. p[k] \in 1 .. n
      BY <1>1
    <3>2. q[k] = p[k]
      BY <1>1
    <3>. HIDE DEF q
    <3>. QED  BY <3>1, <3>2
  <2>3. q[N + 1] = n + 1
    BY <1>1
  <2>. HIDE DEF q
  <2>4. \A k \in 1 .. N + 1 : k \in 1 .. N \/ k = N + 1
    BY <1>1
  <2>. QED  BY <2>1, <2>2, <2>3, <2>4
<1>. HIDE DEF N, q, ms
<1>7. q \in [1 .. N + 1 -> 1 .. n + 1]
  <2>1. ASSUME NEW k \in 1 .. N + 1 PROVE q[k] \in 1 .. n + 1
    <3>1. CASE k \in 1 .. N
      <4>1. q[k] \in Nat /\ 1 <= q[k] /\ q[k] <= n
        BY <1>6, <3>1
      <4>. QED  BY <4>1
    <3>2. CASE k = N + 1
      <4>1. q[k] = n + 1
        BY <1>6, <3>2
      <4>. QED  BY <4>1
    <3>. QED  BY <1>6, <3>1, <3>2
  <2>2. q = [k \in 1 .. N + 1 |-> q[k]]
    BY <1>6, Zenon
  <2>. QED  BY ONLY <2>1, <2>2
<1>8. \A k, m \in 1 .. N + 1 : k < m => q[k] < q[m]
  <2>. SUFFICES ASSUME NEW k \in 1 .. N + 1, NEW m \in 1 .. N + 1, k < m PROVE q[k] < q[m]
    OBVIOUS
  <2>1. k \in 1 .. N
    BY <1>1, <1>6
  <2>2. CASE m \in 1 .. N
    <3>1. p[k] < p[m]
      BY <1>1, <2>1, <2>2
    <3>. QED  BY <1>6, <2>1, <2>2, <3>1
  <2>3. CASE m = N + 1
    <3>1. q[m] = n + 1 /\ q[k] \in Nat /\ q[k] <= n
      BY <1>6, <2>1, <2>3
    <3>. QED  BY <3>1
  <2>. QED  BY <1>6, <2>2, <2>3
<1>9. \A d \in 1 .. n + 1 : av[d].dash => \E k \in 1 .. N + 1 : q[k] = d
  <2>. SUFFICES ASSUME NEW d \in 1 .. n + 1, av[d].dash PROVE \E k \in 1 .. N + 1 : q[k] = d
    OBVIOUS
  <2>1. N + 1 \in 1 .. N + 1 /\ \A k \in 1 .. N : k \in 1 .. N + 1
    BY <1>1
  <2>2. CASE d = n + 1
    BY <1>6, <2>1, <2>2
  <2>3. CASE d # n + 1
    <3>1. d \in 1 .. n
      BY <2>3
    <3>2. PICK k \in 1 .. N : p[k] = d
      BY <3>1 DEF Cut, N
    <3>. QED  BY <1>6, <2>1, <3>2
  <2>. QED  BY <2>2, <2>3
<1>10. \A k \in 1 .. N + 1 : q[k] # 1 => av[q[k]].dash
  BY <1>6 DEF Cut, N
<1>11. ASSUME NEW k \in 1 .. N + 1 PROVE LineFrom(av, ms[k], q[k], EndOf(ms, q, n + 1, k))
  <2>1. CASE k = N + 1
    <3>1. EndOf(ms, q, n + 1, k) = n + 1
      BY <1>1, <1>5, <2>1 DEF EndOf
    <3>2. ms[k] = new /\ q[k] = n + 1
      BY <1>5, <1>6, <2>1
    <3>3. n + 1 <= n + 1 /\ n + 1 - (n + 1) = 0 /\ n + 1 + 1 .. n + 1 = {} /\ 1 .. 0 = {}
      OBVIOUS
    <3>4. LineFrom(av, new, n + 1, n + 1)
      BY <1>3, <3>3 DEF LineFrom
    <3>. QED  BY <3>1, <3>2, <3>4
  <2>2. CASE k \in 1 .. N
    <3>1. EndOf(ms, q, n + 1, k) = EndOf(ls, p, n, k)
      <4>1. k < N + 1 /\ k + 1 \in 1 .. N + 1 /\ (k < N => k + 1 \in 1 .. N) /\ (~(k < N) => k + 1 = N + 1)
        BY <1>1, <2>2
      <4>2. EndOf(ms, q, n + 1, k) = q[k + 1] - 1
        BY <1>5, <4>1 DEF EndOf
      <4>3. CASE k < N
        BY <1>6, <4>1, <4>2, <4>3 DEF EndOf, N
      <4>4. CASE ~(k < N)
        <5>1. EndOf(ls, p, n, k) = n
          BY <4>4 DEF EndOf, N
        <5>. QED  BY <1>6, <4>1, <4>2, <4>4, <5>1
      <4>. QED  BY <4>3, <4>4
    <3>2. ms[k] = ls[k] /\ q[k] = p[k]
      BY <1>5, <1>6, <2>2
    <3>3. LineFrom(av, ls[k], p[k], EndOf(ls, p, n, k))
      BY <2>2 DEF Cut, N
    <3>. QED  BY <3>1, <3>2, <3>3
  <2>. QED  BY <1>6, <2>1, <2>2
<1>12. n + 1 # 0 /\ N + 1 # 0
  BY <1>1
<1>13. Cut(av, n + 1, ms, q)
  BY <1>5, <1>7, <1>8, <1>9, <1>10, <1>11, <1>12 DEF Cut
<1>. QED  BY <1>4, <1>13

\* What is before the first of them begins one.
LEMMA CutFirst ==
  ASSUME NEW av \in Seq(ArgWords), Len(av) > 0, ~av[1].dash
  PROVE  \E q : Cut(av, 1, <<Expression(<<av[1].name>>)>>, q)
<1> DEFINE l == Expression(<<av[1].name>>)
           ls == <<l>>
           q == [k \in 1 .. 1 |-> 1]
<1>1. av[1].name \in STRING
  <2>1. av[1] \in ArgWords
    OBVIOUS
  <2>. QED  BY <2>1 DEF ArgWords
<1>2. l \in ArgLines /\ l.cmd = ""
  <2> DEFINE o == <<av[1].name>>
  <2>1. o \in Seq(STRING)
    BY <1>1
  <2>. HIDE DEF o
  <2>2. "" \in STRING \cup {""}
    OBVIOUS
  <2>3. l = [cmd |-> "", operands |-> o]
    BY DEF Expression, Line, o
  <2>. HIDE DEF l
  <2>4. [cmd |-> "", operands |-> o] \in [cmd : STRING \cup {""}, operands : Seq(STRING)]
    BY <2>1, <2>2, Zenon
  <2>5. l.cmd = ""
    BY <2>3
  <2>. QED  BY <2>3, <2>4, <2>5 DEF ArgLines
<1>. HIDE DEF l
<1>3. ls \in Seq(ArgLines) /\ Len(ls) = 1 /\ ls[1] = l
  <2>1. l \in ArgLines
    BY <1>2
  <2>. QED  BY <2>1
<1>4. q \in [1 .. 1 -> 1 .. 1] /\ q[1] = 1 /\ \A k \in 1 .. 1 : k = 1
  OBVIOUS
<1>. HIDE DEF q, ls
<1>5. EndOf(ls, q, 1, 1) = 1
  BY <1>3 DEF EndOf
<1>6. LineFrom(av, l, 1, 1)
  <2>1. 1 <= 1 /\ 1 + 1 .. 1 = {}
    OBVIOUS
  <2>. QED  BY <1>2, <2>1 DEF LineFrom
<1>7. \A k, m \in 1 .. 1 : ~(k < m)
  OBVIOUS
<1>8. Cut(av, 1, ls, q)
  BY <1>3, <1>4, <1>5, <1>6, <1>7 DEF Cut
<1>. QED  BY <1>8 DEF ls, l

\* Any other word belongs to the last line.
LEMMA CutMore ==
  ASSUME NEW av \in Seq(ArgWords), NEW n \in Nat, n < Len(av), NEW ls, NEW p, Cut(av, n, ls, p),
         ~av[n + 1].dash, ls # <<>>
  PROVE  Cut(av, n + 1, AddWord(ls, av[n + 1]), p)
<1> DEFINE N == Len(ls)
           w == av[n + 1].name
           last == [ls[N] EXCEPT !.operands = Append(@, w)]
           ms == [ls EXCEPT ![N] = last]
<1>1. /\ ls \in Seq(ArgLines) /\ N \in Nat /\ N # 0 /\ p \in [1 .. N -> 1 .. n]
      /\ \A k, m \in 1 .. N : k < m => p[k] < p[m]
  BY DEF Cut
<1>2. n + 1 \in 1 .. Len(av) /\ w \in STRING
  <2>1. n + 1 \in 1 .. Len(av) /\ av[n + 1] \in ArgWords
    OBVIOUS
  <2>. QED  BY <2>1 DEF ArgWords
<1>3. AddWord(ls, av[n + 1]) = ms
  BY DEF AddWord
<1>4. N \in 1 .. N /\ ls[N] \in ArgLines
  BY <1>1
<1>5. ls[N].operands \in Seq(STRING) /\ ls[N].cmd \in STRING \cup {""}
  BY <1>4 DEF ArgLines
<1>. HIDE DEF w
<1>6. /\ last.cmd = ls[N].cmd /\ last.operands = Append(ls[N].operands, w)
      /\ last \in ArgLines
  <2> DEFINE o == Append(ls[N].operands, w)
             x == ls[N]
  <2>1. o \in Seq(STRING) /\ x \in [cmd : STRING \cup {""}, operands : Seq(STRING)]
    <3>1. x \in [cmd : STRING \cup {""}, operands : Seq(STRING)]
      BY <1>4 DEF ArgLines
    <3>2. o \in Seq(STRING)
      BY <1>2, <1>5, WordAppended
    <3>. QED  BY <3>1, <3>2
  <2>2. last = [x EXCEPT !.operands = o]
    OBVIOUS
  <2>. HIDE DEF o, x, last
  <2>3. last.cmd = x.cmd /\ last.operands = o /\ last \in ArgLines
    BY <2>1, <2>2 DEF ArgLines
  <2>. QED  BY <2>3 DEF o, x
<1>. HIDE DEF last
<1>7. /\ ms \in Seq(ArgLines) /\ Len(ms) = N /\ ms[N] = last
      /\ \A k \in 1 .. N : k # N => ms[k] = ls[k]
  BY <1>1, <1>4, <1>6
<1>. HIDE DEF ms, N
<1>8. p \in [1 .. N -> 1 .. n + 1]
  <2>1. \A k \in 1 .. N : p[k] \in 1 .. n + 1
    BY <1>1
  <2>. QED  BY <1>1, <2>1
<1>9. \A d \in 1 .. n + 1 : av[d].dash => \E k \in 1 .. N : p[k] = d
  <2>. SUFFICES ASSUME NEW d \in 1 .. n + 1, av[d].dash PROVE \E k \in 1 .. N : p[k] = d
    OBVIOUS
  <2>1. d # n + 1
    OBVIOUS
  <2>2. d \in 1 .. n
    BY <2>1
  <2>. QED  BY <2>2 DEF Cut, N
<1>10. \A k \in 1 .. N : p[k] # 1 => av[p[k]].dash
  BY DEF Cut, N
<1>11. ASSUME NEW k \in 1 .. N PROVE LineFrom(av, ms[k], p[k], EndOf(ms, p, n + 1, k))
  <2>0. LineFrom(av, ls[k], p[k], EndOf(ls, p, n, k)) /\ p[k] \in Nat /\ p[k] <= n
    BY <1>1 DEF Cut, N
  <2>1. CASE k # N
    <3>1. EndOf(ms, p, n + 1, k) = EndOf(ls, p, n, k)
      BY <1>1, <1>7, <2>1 DEF EndOf, N
    <3>. QED  BY <1>7, <2>0, <2>1, <3>1
  <2>2. CASE k = N
    <3>1. EndOf(ms, p, n + 1, k) = n + 1 /\ EndOf(ls, p, n, k) = n
      BY <1>1, <1>7, <2>2 DEF EndOf, N
    <3> DEFINE d == p[k]
    <3>2. LineFrom(av, ls[N], d, n) /\ d \in Nat /\ d <= n
      BY <2>0, <2>2, <3>1
    <3>. HIDE DEF d
    <3> DEFINE e == n + 1
               o == ls[N].operands
               u == last.operands
    <3>3. ASSUME NEW j \in d + 1 .. e PROVE ~av[j].dash
      <4>1. j = n + 1 \/ j \in d + 1 .. n
        BY <3>2
      <4>. QED  BY <3>2, <4>1 DEF LineFrom
    <3>4. ASSUME av[d].dash
          PROVE  Len(u) = e - d /\ \A j \in 1 .. e - d : u[j] = av[d + j].name
      <4>1. Len(o) = n - d /\ \A j \in 1 .. n - d : o[j] = av[d + j].name
        BY <3>2, <3>4 DEF LineFrom
      <4>2. Len(u) = n - d + 1 /\ u[n - d + 1] = w /\ \A j \in 1 .. n - d : u[j] = o[j]
        <5>1. u = Append(o, w) /\ o \in Seq(STRING) /\ Len(o) = n - d /\ w \in STRING
          BY <1>2, <1>5, <1>6, <4>1
        <5>. HIDE DEF u, o
        <5>2. /\ Len(u) = Len(o) + 1 /\ u[Len(o) + 1] = w
              /\ \A j \in 1 .. Len(o) : u[j] = o[j]
          BY <5>1, WordAppended
        <5>. QED  BY <5>1, <5>2
      <4>3. \A j \in 1 .. e - d : j \in 1 .. n - d \/ j = n - d + 1
        BY <3>2
      <4>4. n - d + 1 = e - d /\ d + (n - d + 1) = e
        BY <3>2
      <4>. HIDE DEF e, u, o
      <4>5. ASSUME NEW j \in 1 .. e - d PROVE u[j] = av[d + j].name
        <5>1. CASE j \in 1 .. n - d
          BY <4>1, <4>2, <5>1
        <5>2. CASE j = n - d + 1
          BY <4>2, <4>4, <5>2 DEF w, e
        <5>. QED  BY <4>3, <5>1, <5>2
      <4>. QED  BY <4>2, <4>4, <4>5
    <3>5. d <= e
      BY <3>2
    <3>6. last.cmd = IF av[d].dash THEN av[d].name ELSE ""
      BY <1>6, <3>2 DEF LineFrom
    <3>. HIDE DEF e
    <3>7. LineFrom(av, last, d, e)
      BY <3>3, <3>4, <3>5, <3>6, Zenon DEF LineFrom
    <3>. QED  BY <1>7, <2>2, <3>1, <3>7 DEF d, e
  <2>. QED  BY <2>1, <2>2
<1>12. n + 1 # 0
  OBVIOUS
<1>13. Cut(av, n + 1, ms, p)
  BY <1>1, <1>7, <1>8, <1>9, <1>10, <1>11, <1>12 DEF Cut
<1>. QED  BY <1>3, <1>13

\* The lines that arguments() gives.
LEMMA LinesOfArguments ==
  ASSUME NEW av \in Seq(ArgWords)
  PROVE  \E p : Cut(av, Len(av), arguments(av), p)
<1> DEFINE N == Len(av)
<1>1. N \in Nat
  OBVIOUS
<1>2. PICK g : g = [n \in 0 .. N |-> LinesTo(g, av, n)] /\ arguments(av) = g[N]
  BY ArgumentsUnfold
<1>3. \A n \in 0 .. N : g[n] = LinesTo(g, av, n)
  BY <1>2
<1> DEFINE Good(n) == \E p : Cut(av, n, g[n], p)
           T == {n \in Nat : n <= N /\ ~Good(n)}
<1>4. Good(0)
  <2>1. g[0] = <<>>
    BY <1>1, <1>3 DEF LinesTo
  <2> DEFINE p == [k \in {} |-> 0]
  <2>2. 1 .. 0 = {} /\ Len(<<>>) = 0 /\ p \in [{} -> {}] /\ <<>> \in Seq(ArgLines)
    OBVIOUS
  <2>. HIDE DEF p
  <2>3. Cut(av, 0, <<>>, p)
    BY <2>2 DEF Cut
  <2>. QED  BY <2>1, <2>3
<1>5. ASSUME NEW n \in Nat, n < N, Good(n) PROVE Good(n + 1)
  <2>1. PICK p : Cut(av, n, g[n], p)
    BY <1>5
  <2>2. g[n + 1] = AddWord(g[n], av[n + 1])
    <3>1. n + 1 \in 0 .. N /\ n + 1 # 0 /\ n + 1 - 1 = n
      BY <1>1, <1>5
    <3>. QED  BY <1>3, <3>1 DEF LinesTo
  <2>3. CASE av[n + 1].dash
    BY <1>5, <2>1, <2>2, <2>3, CutDash
  <2>4. CASE ~av[n + 1].dash /\ g[n] # <<>>
    BY <1>5, <2>1, <2>2, <2>4, CutMore
  <2>5. CASE ~av[n + 1].dash /\ g[n] = <<>>
    <3>1. n = 0
      BY <2>1, <2>5 DEF Cut
    <3>2. g[n + 1] = <<Expression(<<av[1].name>>)>>
      BY <2>2, <2>5, <3>1 DEF AddWord
    <3>3. \E q : Cut(av, 1, <<Expression(<<av[1].name>>)>>, q)
      BY <1>5, <2>5, <3>1, CutFirst
    <3>. QED  BY <3>1, <3>2, <3>3
  <2>. QED  BY <2>3, <2>4, <2>5
<1>. HIDE DEF Good, N
<1>6. T = {}
  <2>. SUFFICES ASSUME T # {} PROVE FALSE
    OBVIOUS
  <2>1. T \in SUBSET Nat
    OBVIOUS
  <2>2. PICK n \in T : \A y \in T : n <= y
    BY <2>1, LeastMember
  <2>3. n \in Nat /\ n <= N /\ ~Good(n) /\ n # 0
    BY <1>4, <2>2
  <2>4. n - 1 \in Nat /\ ~(n <= n - 1) /\ n - 1 + 1 = n /\ n - 1 < N
    BY <1>1, <2>3
  <2>5. Good(n - 1)
    BY <1>1, <2>2, <2>3, <2>4
  <2>. QED  BY <1>5, <2>3, <2>4, <2>5
<1>7. Good(N)
  BY <1>1, <1>6
<1>. QED  BY <1>2, <1>7 DEF Good, N

\* The operands of the line of a word with a dash are what is given after it.
LEMMA GivenOperands ==
  ASSUME argv \in Seq(ArgWords), NEW ls, NEW p, Cut(argv, Len(argv), ls, p),
         NEW k \in 1 .. Len(ls), argv[p[k]].dash
  PROVE  Given(p[k]) = ls[k].operands
<1> DEFINE N == Len(argv)
           i == p[k]
           e == EndOf(ls, p, N, k)
           Last1(n) == /\ \A j \in i + 1 .. n : ~argv[j].dash
                       /\ n = N \/ argv[n + 1].dash
           last == CHOOSE n \in i .. N : Last1(n)
           o == ls[k].operands
<1>1. /\ N \in Nat /\ ls \in Seq(ArgLines) /\ Len(ls) \in Nat /\ p \in [1 .. Len(ls) -> 1 .. N]
      /\ i \in Nat /\ 1 <= i /\ i <= N
  <2>1. N \in Nat /\ ls \in Seq(ArgLines) /\ p \in [1 .. Len(ls) -> 1 .. N]
    BY DEF Cut
  <2>2. i \in 1 .. N
    BY <2>1
  <2>. QED  BY <2>1, <2>2
<1>2. LineFrom(argv, ls[k], i, e)
  BY DEF Cut
<1>3. i <= e /\ \A j \in i + 1 .. e : ~argv[j].dash
  BY <1>2 DEF LineFrom
<1>4. Len(o) = e - i /\ \A j \in 1 .. e - i : o[j] = argv[i + j].name
  BY <1>2 DEF LineFrom
<1>5. e \in i .. N /\ (e = N \/ argv[e + 1].dash)
  <2>1. CASE k < Len(ls)
    <3>1. k + 1 \in 1 .. Len(ls) /\ k < k + 1
      BY <1>1, <2>1
    <3>2. p[k + 1] \in 1 .. N /\ p[k] < p[k + 1]
      BY <1>1, <3>1 DEF Cut
    <3>3. p[k + 1] # 1
      BY <1>1, <3>2
    <3>4. argv[p[k + 1]].dash
      BY <3>1, <3>3 DEF Cut
    <3>5. e = p[k + 1] - 1
      BY <2>1 DEF EndOf
    <3>6. e + 1 = p[k + 1] /\ e \in i .. N
      BY <1>1, <3>2, <3>5
    <3>. QED  BY <3>4, <3>6
  <2>2. CASE ~(k < Len(ls))
    BY <1>1, <2>2 DEF EndOf
  <2>. QED  BY <2>1, <2>2
<1>6. o \in Seq(STRING)
  <2>1. ls[k] \in ArgLines
    BY <1>1
  <2>. QED  BY <2>1 DEF ArgLines
<1>7. Given(i) = [j \in 1 .. last - i |-> argv[i + j].name]
  BY DEF Given
<1>. HIDE DEF e, i, o, N
<1>8. last = e
  <2>1. Last1(e)
    BY <1>3, <1>5
  <2>2. last \in i .. N /\ Last1(last)
    BY <1>5, <2>1
  <2>. HIDE DEF last
  <2>3. CASE last < e
    <3>1. last + 1 \in i + 1 .. e /\ last # N
      BY <1>1, <1>5, <2>2, <2>3
    <3>. QED  BY <1>3, <2>2, <3>1
  <2>4. CASE e < last
    <3>1. e + 1 \in i + 1 .. last /\ e # N
      BY <1>1, <1>5, <2>2, <2>4
    <3>. QED  BY <1>5, <2>2, <3>1
  <2>. QED  BY <1>1, <1>5, <2>2, <2>3, <2>4
<1>. HIDE DEF last
<1>9. o = [j \in 1 .. e - i |-> o[j]]
  BY <1>4, <1>6
<1>10. o = [j \in 1 .. e - i |-> argv[i + j].name]
  BY <1>4, <1>9
<1>11. Given(i) = o
  BY <1>7, <1>8, <1>10
<1>. QED  BY <1>11 DEF i, o

-----------------------------------------------------------------------------
(* What commands do.                                                       *)

\* Line l is command c.
Asks(l, c) == l.cmd # "" /\ CommandOf(l.cmd) = c

SizeLine(l) == Asks(l, "size_param") /\ SetsSize(l.operands)

\* The first n lines ask for no reinit.
NoReinit(ls, n) == \A k \in 1 .. n : ~Asks(ls[k], "reinit")

\* The sizes f are what the first n lines make of them.
SizesFrom(ls, f, n) ==
  \A k \in 1 .. n :
    SizeLine(ls[k]) /\ (\A m \in k + 1 .. n : SizeLine(ls[m]) => ls[m].operands[1] # ls[k].operands[1])
      => f[ls[k].operands[1]] = Numbers[ls[k].operands[2]]

Answered == loaded \cup refused

\* What the first n lines ask to load is loaded or was refused.
LoadedTo(ls, n) == \A k \in 1 .. n : Asks(ls[k], "load") => ToSet(ls[k].operands) \subseteq Answered

Flags == [exit_on_error : BOOLEAN, reinit_requested : BOOLEAN, reinited_on_start : BOOLEAN,
          will_eval_commands : BOOLEAN, eval_commands : BOOLEAN, command_line : BOOLEAN,
          quit : BOOLEAN]

SizeTables == [DOMAIN Default -> Nat]

\* What a line does to the flags, fs after it.
FlagsAfter(l, fs) ==
  /\ fs \in Flags
  /\ fs.eval_commands = flag.eval_commands
  /\ fs.reinited_on_start = flag.reinited_on_start
  /\ fs.command_line = flag.command_line
  /\ ~flag.eval_commands => fs.will_eval_commands = flag.will_eval_commands
  /\ flag.eval_commands /\ Asks(l, "reinit") =>
       fs.reinit_requested = (~flag.command_line \/ ~flag.reinited_on_start)
  /\ ~Asks(l, "reinit") => fs.reinit_requested = flag.reinit_requested

LEMMA FlagEffect ==
  ASSUME flag \in Flags, NEW l, eval_command(l, flag')
  PROVE  FlagsAfter(l, flag')
<1> DEFINE c == CommandOf(l.cmd)
           o == l.operands
<1>1. flag' = IF l.cmd # "" /\ flag.eval_commands THEN run_command(c, o) ELSE flag
  BY DEF eval_command
<1>2. Asks(l, "reinit") <=> l.cmd # "" /\ c = "reinit"
  BY DEF Asks
<1>. HIDE DEF c, o
<1>3. CASE ~(l.cmd # "" /\ flag.eval_commands)
  <2>1. flag' = flag
    BY <1>1, <1>3
  <2>. QED  BY <1>2, <1>3, <2>1 DEF FlagsAfter
<1>4. CASE l.cmd # "" /\ flag.eval_commands /\ c = "reinit"
  <2> DEFINE b == ~flag.command_line \/ ~flag.reinited_on_start
  <2>1. b \in BOOLEAN
    OBVIOUS
  <2>2. flag' = [flag EXCEPT !.reinit_requested = b]
    BY <1>1, <1>4 DEF run_command, command_reinit
  <2>. HIDE DEF b
  <2>3. /\ flag' \in Flags /\ flag'.reinit_requested = b
        /\ flag'.eval_commands = flag.eval_commands
        /\ flag'.reinited_on_start = flag.reinited_on_start
        /\ flag'.command_line = flag.command_line
    BY <2>1, <2>2 DEF Flags
  <2>. QED  BY <1>2, <1>4, <2>3 DEF FlagsAfter, b
<1>5. CASE l.cmd # "" /\ flag.eval_commands /\ c = "quit"
  <2> DEFINE b == o = <<>> \/ o[1] = "yes"
  <2>1. b \in BOOLEAN
    OBVIOUS
  <2>2. flag' = [flag EXCEPT !.quit = b]
    BY <1>1, <1>5 DEF run_command, command_quit
  <2>. HIDE DEF b
  <2>3. /\ flag' \in Flags /\ flag'.reinit_requested = flag.reinit_requested
        /\ flag'.eval_commands = flag.eval_commands
        /\ flag'.reinited_on_start = flag.reinited_on_start
        /\ flag'.command_line = flag.command_line
    BY <2>1, <2>2 DEF Flags
  <2>. QED  BY <1>2, <1>5, <2>3 DEF FlagsAfter
<1>6. CASE l.cmd # "" /\ flag.eval_commands /\ c = "single"
  <2> DEFINE b == o # <<>> /\ o[1] # "yes"
  <2>1. b \in BOOLEAN
    OBVIOUS
  <2>2. flag' = [flag EXCEPT !.will_eval_commands = b]
    BY <1>1, <1>6 DEF run_command, command_single
  <2>. HIDE DEF b
  <2>3. /\ flag' \in Flags /\ flag'.reinit_requested = flag.reinit_requested
        /\ flag'.eval_commands = flag.eval_commands
        /\ flag'.reinited_on_start = flag.reinited_on_start
        /\ flag'.command_line = flag.command_line
    BY <2>1, <2>2 DEF Flags
  <2>. QED  BY <1>2, <1>6, <2>3 DEF FlagsAfter
<1>7. CASE l.cmd # "" /\ flag.eval_commands /\ c \notin {"reinit", "quit", "single"}
  <2>1. flag' = flag
    BY <1>1, <1>7 DEF run_command
  <2>. QED  BY <1>2, <1>7, <2>1 DEF FlagsAfter
<1>. QED  BY <1>3, <1>4, <1>5, <1>6, <1>7

\* What a line does to the sizes.
LEMMA SizeEffect ==
  ASSUME size_init \in SizeTables, NEW l, eval_command(l, flag')
  PROVE  /\ size_init' \in SizeTables
         /\ flag.eval_commands /\ SizeLine(l) =>
              size_init' = [size_init EXCEPT ![l.operands[1]] = Numbers[l.operands[2]]]
         /\ ~SizeLine(l) => size_init' = size_init
<1> DEFINE o == l.operands
<1>1. size_init' = IF (l.cmd # "" /\ flag.eval_commands) /\ CommandOf(l.cmd) = "size_param"
                   THEN command_size_param(o) ELSE size_init
  BY DEF eval_command, Runs
<1>2. DOMAIN size_init = DOMAIN Default
  BY DEF SizeTables
<1>3. command_size_param(o) =
        IF SetsSize(o) THEN [size_init EXCEPT ![o[1]] = Numbers[o[2]]] ELSE size_init
  BY <1>2 DEF command_size_param, SetsSize
<1>4. SizeLine(l) <=> (l.cmd # "" /\ CommandOf(l.cmd) = "size_param") /\ SetsSize(o)
  BY DEF SizeLine, Asks
<1>. HIDE DEF o
<1>5. SetsSize(o) => [size_init EXCEPT ![o[1]] = Numbers[o[2]]] \in SizeTables
  <2>. SUFFICES ASSUME SetsSize(o) PROVE [size_init EXCEPT ![o[1]] = Numbers[o[2]]] \in SizeTables
    OBVIOUS
  <2>1. o[1] \in DOMAIN Default /\ Numbers[o[2]] \in Nat
    BY LoopAssumption DEF SetsSize
  <2>. QED  BY <2>1 DEF SizeTables
<1>6. /\ size_init' \in SizeTables
      /\ flag.eval_commands /\ SizeLine(l) => size_init' = [size_init EXCEPT ![o[1]] = Numbers[o[2]]]
      /\ ~SizeLine(l) => size_init' = size_init
  BY <1>1, <1>3, <1>4, <1>5
<1>. QED  BY <1>6 DEF o

\* What it loads.
LEMMA LoadEffect ==
  ASSUME NEW l, eval_command(l, flag')
  PROVE  /\ Answered \subseteq Answered'
         /\ flag.eval_commands /\ Asks(l, "load") => ToSet(l.operands) \subseteq Answered'
<1> DEFINE o == l.operands
<1>1. Runs(l, "load") <=> flag.eval_commands /\ Asks(l, "load")
  BY DEF Runs, Asks
<1>2. CASE ~Runs(l, "load")
  <2>1. UNCHANGED <<loaded, refused>>
    BY <1>2 DEF eval_command, open_files
  <2>. QED  BY <1>1, <1>2, <2>1 DEF Answered
<1>3. CASE Runs(l, "load")
  <2>1. command_load(o)
    BY <1>3 DEF eval_command
  <2>. HIDE DEF o
  <2>2. /\ loaded' = loaded \cup {o[k] : k \in Opened(o)}
        /\ refused' = refused \cup {o[k] : k \in DOMAIN o \ Opened(o)}
    BY <2>1 DEF command_load
  <2>3. \A k \in DOMAIN o : k \in Opened(o) \/ k \in DOMAIN o \ Opened(o)
    OBVIOUS
  <2>4. ToSet(o) = {o[k] : k \in DOMAIN o}
    BY DEF ToSet
  <2>5. ToSet(o) \subseteq Answered'
    BY <2>2, <2>3, <2>4 DEF Answered
  <2>6. Answered \subseteq Answered'
    BY <2>2 DEF Answered
  <2>. QED  BY <2>5, <2>6 DEF o
<1>. QED  BY <1>2, <1>3

-----------------------------------------------------------------------------
(* The loop.                                                               *)

Lines == arguments(argv)

\* How many lines of the arguments have been run.
Ran == Len(Lines) - Len(todo)

RcLines == [cmd : STRING, operands : Seq(STRING)]

NoRcReinit == \A k \in DOMAIN rc : CommandOf(rc[k].cmd) # "reinit"

\* Commands are run, or never will be again.
LoopTypeOK ==
  /\ argv \in Argvs /\ rc \in RcFiles
  /\ flag \in Flags /\ size_init \in SizeTables
  /\ pc \in {"start", "rc", "args", "input", "ended"}
  /\ ~flag.eval_commands => ~flag.will_eval_commands

\* What is left of the rc file, or of the arguments.
LeftToRun ==
  /\ pc = "rc" => /\ todo \in Seq(RcLines)
                  /\ NoRcReinit => \A k \in 1 .. Len(todo) : ~Asks(todo[k], "reinit")
  /\ pc = "args" => /\ flag.command_line /\ todo \in Seq(ArgLines) /\ Ran \in 0 .. Len(Lines)
                    /\ \A k \in 1 .. Len(todo) : todo[k] = Lines[Ran + k]

Loads ==
  flag.eval_commands =>
    /\ pc = "args" => LoadedTo(Lines, Ran)
    /\ pc = "input" => LoadedTo(Lines, Len(Lines))

\* Only the first reinit of the arguments asks for one, after the sizes before it.
BeforeReinit ==
  /\ flag.reinit_requested => /\ pc = "args" /\ Ran \in 1 .. Len(Lines)
                              /\ Asks(Lines[Ran], "reinit") /\ NoReinit(Lines, Ran - 1)
                              /\ SizesFrom(Lines, size_init, Ran - 1)
  /\ pc = "args" /\ ~flag.reinit_requested => /\ NoReinit(Lines, Ran)
                                              /\ SizesFrom(Lines, size_init, Ran)
  /\ pc = "input" => NoReinit(Lines, Len(Lines))

\* When it has been done, or will be, the memory has these sizes and keeps them.
AfterReinit ==
  \E r \in 1 .. Len(Lines) :
    /\ Asks(Lines[r], "reinit") /\ NoReinit(Lines, r - 1)
    /\ flag.reinit_requested => pc = "start" /\ SizesFrom(Lines, size_init, r - 1)
    /\ ~flag.reinit_requested => SizesFrom(Lines, size, r - 1)

Resized ==
  NoRcReinit /\ flag.eval_commands /\ pc # "ended" =>
    IF flag.reinited_on_start THEN AfterReinit ELSE BeforeReinit

LoopInv == LoopTypeOK /\ LeftToRun /\ Loads /\ Resized

LEMMA LoopTypes ==
  ASSUME LoopTypeOK
  PROVE  /\ argv \in Seq(ArgWords) /\ rc \in Seq(RcLines)
         /\ Lines \in Seq(ArgLines) /\ Len(Lines) \in Nat
<1>1. argv \in Seq(ArgWords) /\ rc \in Seq(RcLines)
  BY LoopAssumption DEF LoopTypeOK, ArgWords, RcLines
<1>2. PICK p : Cut(argv, Len(argv), Lines, p)
  BY <1>1, LinesOfArguments DEF Lines
<1>3. Lines \in Seq(ArgLines)
  BY <1>2 DEF Cut
<1>4. Len(Lines) \in Nat
  BY <1>3, SeqFacts
<1>. QED  BY <1>1, <1>3, <1>4

LEMMA LoopStarts == LoopInit => LoopInv
<1>. SUFFICES ASSUME LoopInit PROVE LoopInv
  OBVIOUS
<1>1. PICK av \in Argvs, rc_lines \in RcFiles, lines \in Typed : LoopStart(av, rc_lines, lines)
  BY DEF LoopInit
<1>2. pc = "start" /\ argv \in Argvs /\ rc \in RcFiles /\ size_init = Default
  BY <1>1 DEF LoopInit, LoopStart
<1>3. flag = [exit_on_error |-> FALSE, reinit_requested |-> FALSE, reinited_on_start |-> FALSE,
              will_eval_commands |-> TRUE, eval_commands |-> TRUE, command_line |-> FALSE,
              quit |-> FALSE]
  BY <1>1 DEF LoopStart
<1>4. flag \in Flags /\ ~flag.reinit_requested /\ ~flag.reinited_on_start /\ flag.eval_commands
  BY <1>3 DEF Flags
<1>5. size_init \in SizeTables
  BY <1>2, LoopAssumption DEF SizeTables
<1>6. LoopTypeOK
  BY <1>2, <1>4, <1>5 DEF LoopTypeOK
<1>7. LeftToRun /\ Loads
  BY <1>2 DEF LeftToRun, Loads
<1>8. Resized
  BY <1>2, <1>4 DEF Resized, BeforeReinit
<1>. QED  BY <1>6, <1>7, <1>8 DEF LoopInv

\* A reinit of the arguments is done before anything else is.
LEMMA NoneRequested ==
  ASSUME Resized, NoRcReinit, flag.eval_commands, pc \in {"rc", "input"}
  PROVE  ~flag.reinit_requested
<1>1. IF flag.reinited_on_start THEN AfterReinit ELSE BeforeReinit
  BY DEF Resized
<1>2. CASE flag.reinited_on_start
  BY <1>1, <1>2 DEF AfterReinit
<1>3. CASE ~flag.reinited_on_start
  BY <1>1, <1>3 DEF BeforeReinit
<1>. QED  BY <1>2, <1>3

LEMMA CatchKeeps ==
  ASSUME LoopInv, Catch, UNCHANGED <<argv, rc, size_init, size>>, pc # "ended",
         NoRcReinit /\ flag.eval_commands => ~flag.reinit_requested
  PROVE  LoopInv'
<1>1. flag \in Flags /\ flag' = [flag EXCEPT !.exit_on_error = TRUE]
  BY DEF LoopInv, LoopTypeOK, Catch
<1>2. /\ flag' \in Flags
      /\ flag'.eval_commands = flag.eval_commands
      /\ flag'.will_eval_commands = flag.will_eval_commands
      /\ flag'.reinited_on_start = flag.reinited_on_start
      /\ flag'.reinit_requested = flag.reinit_requested
  BY <1>1 DEF Flags
<1>3. pc' = "ended" \/ pc' = "start"
  BY DEF Catch
<1>4. LoopTypeOK'
  BY <1>2, <1>3 DEF LoopInv, LoopTypeOK
<1>5. LeftToRun' /\ Loads'
  BY <1>3 DEF LeftToRun, Loads
<1>6. Resized'
  <2>. SUFFICES ASSUME NoRcReinit', flag'.eval_commands, pc' # "ended"
                PROVE  (IF flag.reinited_on_start THEN AfterReinit ELSE BeforeReinit)'
    BY DEF Resized
  <2>1. NoRcReinit /\ flag.eval_commands
    BY <1>2 DEF NoRcReinit
  <2>2. IF flag.reinited_on_start THEN AfterReinit ELSE BeforeReinit
    BY <2>1 DEF LoopInv, Resized
  <2>3. ~flag'.reinit_requested
    BY <1>2, <2>1
  <2>4. CASE flag.reinited_on_start
    <3>1. Lines' = Lines
      BY DEF Lines
    <3>2. ~flag.reinit_requested
      BY <2>1
    <3>3. PICK r \in 1 .. Len(Lines) : /\ Asks(Lines[r], "reinit") /\ NoReinit(Lines, r - 1)
                                       /\ SizesFrom(Lines, size, r - 1)
      BY <2>2, <2>4, <3>2 DEF AfterReinit
    <3>4. size' = size
      OBVIOUS
    <3>5. AfterReinit'
      BY <2>3, <3>1, <3>3, <3>4 DEF AfterReinit
    <3>. QED  BY <1>2, <2>4, <3>5
  <2>5. CASE ~flag.reinited_on_start
    <3>1. BeforeReinit'
      BY <1>3, <2>3 DEF BeforeReinit
    <3>. QED  BY <1>2, <2>5, <3>1
  <2>. QED  BY <2>4, <2>5
<1>. QED  BY <1>4, <1>5, <1>6 DEF LoopInv

LEMMA StartKeeps ==
  ASSUME LoopInv, Start
  PROVE  LoopInv'
<1>1. pc = "start" /\ pc' = "rc" /\ todo' = rc /\ UNCHANGED <<argv, rc, size_init>>
  BY DEF Start
<1>2. flag \in Flags /\ flag' = [flag EXCEPT !.reinit_requested = FALSE]
  BY DEF LoopInv, LoopTypeOK, Start
<1>3. /\ flag' \in Flags
      /\ flag'.eval_commands = flag.eval_commands
      /\ flag'.will_eval_commands = flag.will_eval_commands
      /\ flag'.reinited_on_start = flag.reinited_on_start
      /\ ~flag'.reinit_requested
  BY <1>2 DEF Flags
<1>4. LoopTypeOK'
  BY <1>1, <1>3 DEF LoopInv, LoopTypeOK
<1>5. LeftToRun'
  <2>1. rc \in Seq(RcLines)
    BY LoopTypes DEF LoopInv
  <2>2. NoRcReinit' => \A k \in 1 .. Len(rc) : ~Asks(rc[k], "reinit")
    <3>1. DOMAIN rc = 1 .. Len(rc)
      BY <2>1, SeqFacts
    <3>2. NoRcReinit' <=> \A k \in DOMAIN rc : CommandOf(rc[k].cmd) # "reinit"
      BY <1>1 DEF NoRcReinit
    <3>. QED  BY <3>1, <3>2, Zenon DEF Asks
  <2>. QED  BY <1>1, <2>1, <2>2 DEF LeftToRun
<1>6. Loads'
  BY <1>1 DEF Loads
<1>7. Resized'
  <2>. SUFFICES ASSUME NoRcReinit', flag'.eval_commands
                PROVE  (IF flag.reinited_on_start THEN AfterReinit ELSE BeforeReinit)'
    BY DEF Resized
  <2>1. NoRcReinit /\ flag.eval_commands
    BY <1>1, <1>3 DEF NoRcReinit
  <2>2. IF flag.reinited_on_start THEN AfterReinit ELSE BeforeReinit
    BY <1>1, <2>1 DEF LoopInv, Resized
  <2>3. CASE flag.reinited_on_start
    <3>1. Lines' = Lines
      BY <1>1 DEF Lines
    <3>2. PICK r \in 1 .. Len(Lines) :
            /\ Asks(Lines[r], "reinit") /\ NoReinit(Lines, r - 1)
            /\ flag.reinit_requested => SizesFrom(Lines, size_init, r - 1)
            /\ ~flag.reinit_requested => SizesFrom(Lines, size, r - 1)
      BY <2>2, <2>3 DEF AfterReinit
    <3>3. /\ flag.reinit_requested => size' = size_init
          /\ ~flag.reinit_requested => size' = size
      BY DEF Start, alloc_all, storage
    <3>4. SizesFrom(Lines, size', r - 1)
      BY <3>2, <3>3
    <3>5. AfterReinit'
      BY <1>3, <3>1, <3>2, <3>4 DEF AfterReinit
    <3>. QED  BY <1>3, <2>3, <3>5
  <2>4. CASE ~flag.reinited_on_start
    <3>1. BeforeReinit'
      BY <1>1, <1>3 DEF BeforeReinit
    <3>. QED  BY <1>3, <2>4, <3>1
  <2>. QED  BY <2>3, <2>4
<1>. QED  BY <1>4, <1>5, <1>6, <1>7 DEF LoopInv

LEMMA LoadRcKeeps ==
  ASSUME LoopInv, load_rc
  PROVE  LoopInv'
<1>1. pc = "rc" /\ todo # <<>> /\ UNCHANGED <<argv, rc, size>>
  BY DEF load_rc, storage
<1>2. NoRcReinit /\ flag.eval_commands => ~flag.reinit_requested
  BY <1>1, NoneRequested DEF LoopInv
<1>3. CASE Throws(Head(todo))
  <2>1. Catch /\ UNCHANGED size_init
    BY <1>3 DEF load_rc, Thrown
  <2>. QED  BY <1>1, <1>2, <2>1, CatchKeeps
<1>4. CASE ~Throws(Head(todo))
  <2> DEFINE l == Head(todo)
  <2>1. /\ eval_command(l, flag') /\ pc' = pc
        /\ todo' = <<>> \/ todo' = Tail(todo)
    BY <1>4 DEF load_rc
  <2>2. todo \in Seq(RcLines) /\ (NoRcReinit => \A k \in 1 .. Len(todo) : ~Asks(todo[k], "reinit"))
    BY <1>1 DEF LoopInv, LeftToRun
  <2>3. FlagsAfter(l, flag')
    BY <2>1, FlagEffect DEF LoopInv, LoopTypeOK
  <2>4. size_init' \in SizeTables
    BY <2>1, SizeEffect DEF LoopInv, LoopTypeOK
  <2>5. NoRcReinit => ~Asks(l, "reinit")
    <3>1. 1 \in 1 .. Len(todo) /\ l = todo[1]
      BY <1>1, <2>2, TailFacts
    <3>. QED  BY <2>2, <3>1
  <2>. HIDE DEF l
  <2>6. /\ flag' \in Flags
        /\ flag'.eval_commands = flag.eval_commands
        /\ flag'.reinited_on_start = flag.reinited_on_start
        /\ ~flag.eval_commands => flag'.will_eval_commands = flag.will_eval_commands
        /\ ~Asks(l, "reinit") => flag'.reinit_requested = flag.reinit_requested
    BY <2>3 DEF FlagsAfter
  <2>7. LoopTypeOK'
    BY <1>1, <2>1, <2>4, <2>6 DEF LoopInv, LoopTypeOK
  <2>8. LeftToRun'
    <3>1. NoRcReinit' = NoRcReinit
      BY <1>1 DEF NoRcReinit
    <3>2. CASE todo' = <<>>
      <4>1. todo' \in Seq(RcLines) /\ Len(todo') = 0
        BY <3>2, EmptySeq
      <4>3. 1 .. Len(todo') = {}
        BY <4>1, NoneBefore, Zenon
      <4>. QED  BY <1>1, <2>1, <4>1, <4>3 DEF LeftToRun
    <3>3. CASE todo' = Tail(todo)
      <4>1. /\ todo' \in Seq(RcLines)
            /\ \A k \in 1 .. Len(todo') : k + 1 \in 1 .. Len(todo) /\ todo'[k] = todo[k + 1]
        BY <1>1, <2>2, <3>3, TailFacts
      <4>2. NoRcReinit => \A k \in 1 .. Len(todo') : ~Asks(todo'[k], "reinit")
        BY <2>2, <4>1
      <4>. QED  BY <1>1, <2>1, <3>1, <4>1, <4>2 DEF LeftToRun
    <3>. QED  BY <2>1, <3>2, <3>3
  <2>9. Loads'
    BY <1>1, <2>1 DEF Loads
  <2>10. Resized'
    <3>. SUFFICES ASSUME NoRcReinit', flag'.eval_commands
                  PROVE  (IF flag.reinited_on_start THEN AfterReinit ELSE BeforeReinit)'
      BY DEF Resized
    <3>1. NoRcReinit /\ flag.eval_commands
      BY <1>1, <2>6 DEF NoRcReinit
    <3>2. IF flag.reinited_on_start THEN AfterReinit ELSE BeforeReinit
      BY <1>1, <3>1 DEF LoopInv, Resized
    <3>3. ~flag.reinit_requested /\ ~flag'.reinit_requested
      BY <1>2, <2>5, <2>6, <3>1
    <3>4. CASE flag.reinited_on_start
      <4>1. Lines' = Lines /\ size' = size
        BY <1>1 DEF Lines
      <4>2. AfterReinit'
        BY <3>2, <3>3, <3>4, <4>1 DEF AfterReinit
      <4>. QED  BY <2>6, <3>4, <4>2
    <3>5. CASE ~flag.reinited_on_start
      <4>1. BeforeReinit'
        BY <1>1, <2>1, <3>3 DEF BeforeReinit
      <4>. QED  BY <2>6, <3>5, <4>1
    <3>. QED  BY <3>4, <3>5
  <2>. QED  BY <2>7, <2>8, <2>9, <2>10 DEF LoopInv
<1>. QED  BY <1>3, <1>4

LEMMA LexArgumentsKeeps ==
  ASSUME LoopInv, LexArguments
  PROVE  LoopInv'
<1>1. /\ pc = "rc" /\ pc' = "args" /\ todo' = arguments(argv)
      /\ UNCHANGED <<argv, rc, size_init, size>>
  BY DEF LexArguments, storage
<1>2. flag \in Flags /\ flag' = [flag EXCEPT !.command_line = TRUE]
  BY DEF LoopInv, LoopTypeOK, LexArguments
<1>3. /\ flag' \in Flags /\ flag'.command_line
      /\ flag'.eval_commands = flag.eval_commands
      /\ flag'.will_eval_commands = flag.will_eval_commands
      /\ flag'.reinited_on_start = flag.reinited_on_start
      /\ flag'.reinit_requested = flag.reinit_requested
  BY <1>2 DEF Flags
<1>4. LoopTypeOK'
  BY <1>1, <1>3 DEF LoopInv, LoopTypeOK
<1>5. Lines \in Seq(ArgLines) /\ Len(Lines) \in Nat
  BY LoopTypes DEF LoopInv
<1>6. Lines' = Lines /\ todo' = Lines /\ Ran' = Len(Lines) - Len(Lines)
  BY <1>1 DEF Lines, Ran
<1>a. PICK n \in Nat : Len(Lines) = n
  BY <1>5, Zenon
<1>b. n \in Nat
  BY <1>a
<1>7. Ran' = 0
  <2>1. n - n = 0
    BY <1>b
  <2>. QED  BY <1>6, <1>a, <2>1, Zenon
<1>8. LeftToRun'
  <2>1. Ran' \in 0 .. Len(Lines')
    <3>1. 0 \in 0 .. n
      BY <1>b
    <3>. QED  BY <1>6, <1>7, <1>a, <3>1, Zenon
  <2>2. \A k \in 1 .. Len(todo') : todo'[k] = Lines'[Ran' + k]
    <3>1. \A k \in 1 .. n : 0 + k = k
      BY <1>b
    <3>2. Len(todo') = n
      BY <1>6, <1>a, Zenon
    <3>. QED  BY <1>6, <1>7, <3>1, <3>2, Zenon
  <2>3. todo' \in Seq(ArgLines)
    BY <1>5, <1>6, Zenon
  <2>. QED  BY <1>1, <1>3, <2>1, <2>2, <2>3 DEF LeftToRun
<1>9. 1 .. 0 = {}
  OBVIOUS
<1>10. Loads'
  <2>1. LoadedTo(Lines, Ran)'
    BY <1>7, <1>9 DEF LoadedTo
  <2>. QED  BY <1>1, <2>1 DEF Loads
<1>11. Resized'
  <2>. SUFFICES ASSUME NoRcReinit', flag'.eval_commands
                PROVE  (IF flag.reinited_on_start THEN AfterReinit ELSE BeforeReinit)'
    BY DEF Resized
  <2>1. NoRcReinit /\ flag.eval_commands
    BY <1>1, <1>3 DEF NoRcReinit
  <2>2. IF flag.reinited_on_start THEN AfterReinit ELSE BeforeReinit
    BY <1>1, <2>1 DEF LoopInv, Resized
  <2>3. ~flag.reinit_requested /\ ~flag'.reinit_requested
    BY <1>1, <1>3, <2>1, NoneRequested DEF LoopInv
  <2>4. CASE flag.reinited_on_start
    <3>1. AfterReinit'
      BY <1>1, <1>6, <2>2, <2>3, <2>4 DEF AfterReinit
    <3>. QED  BY <1>3, <2>4, <3>1
  <2>5. CASE ~flag.reinited_on_start
    <3>1. NoReinit(Lines', Ran') /\ SizesFrom(Lines', size_init', Ran')
      BY <1>7, <1>9 DEF NoReinit, SizesFrom
    <3>2. BeforeReinit'
      BY <1>1, <2>3, <3>1 DEF BeforeReinit
    <3>. QED  BY <1>3, <2>5, <3>2
  <2>. QED  BY <2>4, <2>5
<1>. QED  BY <1>4, <1>8, <1>10, <1>11 DEF LoopInv

\* A line more.
LEMMA SizesStep ==
  ASSUME NEW ls, NEW n \in Nat, NEW f \in SizeTables, NEW g, SizesFrom(ls, f, n),
         SizeLine(ls[n + 1]) =>
           g = [f EXCEPT ![ls[n + 1].operands[1]] = Numbers[ls[n + 1].operands[2]]],
         ~SizeLine(ls[n + 1]) => g = f
  PROVE  SizesFrom(ls, g, n + 1)
<1>. SUFFICES ASSUME NEW k \in 1 .. n + 1, SizeLine(ls[k]),
                     \A m \in k + 1 .. n + 1 : SizeLine(ls[m]) => ls[m].operands[1] # ls[k].operands[1]
              PROVE  g[ls[k].operands[1]] = Numbers[ls[k].operands[2]]
  BY DEF SizesFrom
<1> DEFINE x == ls[k].operands[1]
           y == ls[n + 1].operands[1]
<1>1. x \in DOMAIN f
  BY DEF SizeLine, SetsSize, SizeTables
<1>2. CASE k = n + 1
  BY <1>1, <1>2
<1>3. CASE k # n + 1
  <2>1. k \in 1 .. n /\ n + 1 \in k + 1 .. n + 1 /\ \A m \in k + 1 .. n : m \in k + 1 .. n + 1
    BY <1>3
  <2>2. f[x] = Numbers[ls[k].operands[2]]
    BY <2>1 DEF SizesFrom
  <2>3. SizeLine(ls[n + 1]) => y # x
    BY <2>1
  <2>. HIDE DEF x, y
  <2>4. g[x] = f[x]
    BY <1>1, <2>3 DEF y
  <2>. QED  BY <2>2, <2>4 DEF x
<1>. QED  BY <1>2, <1>3

LEMMA RunArgumentKeeps ==
  ASSUME LoopInv, RunArgument
  PROVE  LoopInv'
<1>1. /\ pc = "args" /\ todo # <<>> /\ ~flag.reinit_requested
      /\ UNCHANGED <<argv, rc, size>>
  BY DEF RunArgument, storage
<1>2. CASE Throws(Head(todo))
  <2>1. Catch /\ UNCHANGED size_init
    BY <1>2 DEF RunArgument, Thrown
  <2>. QED  BY <1>1, <2>1, CatchKeeps
<1>3. CASE ~Throws(Head(todo))
  <2> DEFINE l == Head(todo)
  <2>1. eval_command(l, flag') /\ pc' = pc /\ todo' = Tail(todo)
    BY <1>3 DEF RunArgument
  <2>2. /\ flag.command_line /\ todo \in Seq(ArgLines) /\ Ran \in 0 .. Len(Lines)
        /\ \A k \in 1 .. Len(todo) : todo[k] = Lines[Ran + k]
    BY <1>1 DEF LoopInv, LeftToRun
  <2>3. FlagsAfter(l, flag')
    BY <2>1, FlagEffect DEF LoopInv, LoopTypeOK
  <2>4. /\ flag' \in Flags
        /\ flag'.eval_commands = flag.eval_commands
        /\ flag'.reinited_on_start = flag.reinited_on_start
        /\ flag'.command_line = flag.command_line
        /\ ~flag.eval_commands => flag'.will_eval_commands = flag.will_eval_commands
        /\ flag.eval_commands /\ Asks(l, "reinit") =>
             flag'.reinit_requested = (~flag.command_line \/ ~flag.reinited_on_start)
        /\ ~Asks(l, "reinit") => flag'.reinit_requested = flag.reinit_requested
    BY <2>3, Zenon DEF FlagsAfter
  <2>5. /\ size_init \in SizeTables /\ size_init' \in SizeTables
        /\ flag.eval_commands /\ SizeLine(l) =>
             size_init' = [size_init EXCEPT ![l.operands[1]] = Numbers[l.operands[2]]]
        /\ ~SizeLine(l) => size_init' = size_init
    BY <2>1, SizeEffect DEF LoopInv, LoopTypeOK
  <2>6. /\ Answered \subseteq Answered'
        /\ flag.eval_commands /\ Asks(l, "load") => ToSet(l.operands) \subseteq Answered'
    BY <2>1, LoadEffect
  <2>7. Lines' = Lines
    BY <1>1 DEF Lines
  <2>8. PICK n \in Nat : Len(Lines) = n
    BY LoopTypes, Zenon DEF LoopInv
  <2>9. PICK t \in Nat : Len(todo) = t
    BY <2>2, SeqFacts, Zenon
  <2>10. /\ 1 \in 1 .. Len(todo) /\ l = todo[1]
         /\ todo' \in Seq(ArgLines) /\ Len(todo') = t - 1
         /\ \A k \in 1 .. t - 1 : k + 1 \in 1 .. t /\ todo'[k] = todo[k + 1]
    BY <1>1, <2>1, <2>2, <2>9, TailFacts
  <2> DEFINE d == Ran
  <2>11. d = n - t /\ n \in Nat /\ t \in Nat /\ Ran' = n - (t - 1) /\ d \in 0 .. n
    BY <2>2, <2>7, <2>8, <2>9, <2>10 DEF Ran
  <2>12. l = Lines[d + 1]
    BY <2>2, <2>10, Zenon
  <2>. HIDE DEF d, l
  <2>13. /\ Ran' = d + 1 /\ d \in Nat /\ d + 1 - 1 = d /\ t - 1 \in Nat
         /\ 1 .. t - 1 \subseteq Nat
    <3>1. t \in 1 .. n
      BY <2>9, <2>10, <2>11
    <3>. QED  BY <2>11, <3>1
  <2>14. d + 1 \in 1 .. n /\ d + 1 \in 0 .. n
    <3>1. 1 <= t
      BY <2>9, <2>10
    <3>. QED  BY <2>11, <3>1
  <2>15. LoopTypeOK'
    BY <1>1, <2>1, <2>4, <2>5 DEF LoopInv, LoopTypeOK
  <2>16. LeftToRun'
    <3>1. ASSUME NEW k \in 1 .. t - 1 PROVE todo'[k] = Lines[d + 1 + k]
      <4>1. k + 1 \in 1 .. t /\ todo'[k] = todo[k + 1]
        BY <2>10
      <4>2. todo[k + 1] = Lines[d + (k + 1)]
        BY <2>2, <2>9, <4>1, Zenon DEF d
      <4>3. d + (k + 1) = d + 1 + k
        BY <2>13
      <4>. QED  BY <4>1, <4>2, <4>3, Zenon
    <3>2. \A k \in 1 .. Len(todo') : todo'[k] = Lines'[Ran' + k]
      BY <2>7, <2>10, <2>13, <3>1, Zenon
    <3>3. Ran' \in 0 .. Len(Lines')
      BY <2>7, <2>8, <2>13, <2>14, Zenon
    <3>. QED  BY <1>1, <2>1, <2>2, <2>4, <2>10, <3>2, <3>3, Zenon DEF LeftToRun
  <2>17. Loads'
    <3>. SUFFICES ASSUME flag.eval_commands PROVE LoadedTo(Lines, Ran)'
      BY <1>1, <2>1, <2>4 DEF Loads
    <3>1. LoadedTo(Lines, d)
      BY <1>1 DEF LoopInv, Loads, d
    <3>2. ASSUME NEW k \in 1 .. d + 1, Asks(Lines[k], "load")
          PROVE  ToSet(Lines[k].operands) \subseteq Answered'
      <4>1. k = d + 1 \/ k \in 1 .. d
        BY <2>13
      <4>2. CASE k = d + 1
        BY <2>6, <2>12, <3>2, <4>2
      <4>3. CASE k \in 1 .. d
        BY <2>6, <3>1, <3>2, <4>3 DEF LoadedTo
      <4>. QED  BY <4>1, <4>2, <4>3
    <3>3. \A k \in 1 .. Ran' : Asks(Lines'[k], "load") => ToSet(Lines'[k].operands) \subseteq Answered'
      BY <2>7, <2>13, <3>2, Zenon
    <3>. QED  BY <3>3, Zenon DEF LoadedTo
  <2>18. Resized'
    <3>. SUFFICES ASSUME NoRcReinit', flag'.eval_commands
                  PROVE  (IF flag.reinited_on_start THEN AfterReinit ELSE BeforeReinit)'
      BY DEF Resized
    <3>1. NoRcReinit /\ flag.eval_commands
      BY <1>1, <2>4 DEF NoRcReinit
    <3>2. IF flag.reinited_on_start THEN AfterReinit ELSE BeforeReinit
      BY <1>1, <3>1 DEF LoopInv, Resized
    <3>3. CASE flag.reinited_on_start
      <4>1. ~flag'.reinit_requested
        BY <1>1, <2>2, <2>4, <3>1, <3>3
      <4>2. AfterReinit'
        BY <1>1, <2>7, <3>2, <3>3, <4>1 DEF AfterReinit
      <4>. QED  BY <2>4, <3>3, <4>2
    <3>4. CASE ~flag.reinited_on_start
      <4>1. NoReinit(Lines, d) /\ SizesFrom(Lines, size_init, d)
        BY <1>1, <3>2, <3>4 DEF BeforeReinit, d
      <4>2. CASE Asks(l, "reinit")
        <5>1. flag'.reinit_requested
          BY <2>4, <3>1, <3>4, <4>2
        <5>2. ~SizeLine(l)
          BY <4>2 DEF SizeLine, Asks
        <5>3. size_init' = size_init
          BY <2>5, <5>2
        <5>4. Ran' - 1 = d
          BY <2>13
        <5>5. NoReinit(Lines', Ran' - 1) /\ SizesFrom(Lines', size_init', Ran' - 1)
          BY <2>7, <4>1, <5>3, <5>4, Zenon
        <5>6. Ran' \in 1 .. Len(Lines') /\ Asks(Lines'[Ran'], "reinit")
          BY <2>7, <2>8, <2>12, <2>13, <2>14, <4>2, Zenon
        <5>7. BeforeReinit'
          BY <1>1, <2>1, <5>1, <5>5, <5>6 DEF BeforeReinit
        <5>. QED  BY <2>4, <3>4, <5>7
      <4>3. CASE ~Asks(l, "reinit")
        <5>1. ~flag'.reinit_requested
          BY <1>1, <2>4, <4>3
        <5>2. NoReinit(Lines, d + 1)
          <6>1. \A k \in 1 .. d + 1 : k = d + 1 \/ k \in 1 .. d
            BY <2>13
          <6>. QED  BY <2>12, <4>1, <4>3, <6>1, Zenon DEF NoReinit
        <5>3. SizesFrom(Lines, size_init', d + 1)
          BY <2>5, <2>12, <2>13, <3>1, <4>1, SizesStep
        <5>4. NoReinit(Lines', Ran') /\ SizesFrom(Lines', size_init', Ran')
          BY <2>7, <2>13, <5>2, <5>3, Zenon
        <5>5. BeforeReinit'
          BY <1>1, <2>1, <5>1, <5>4 DEF BeforeReinit
        <5>. QED  BY <2>4, <3>4, <5>5
      <4>. QED  BY <4>2, <4>3
    <3>. QED  BY <3>3, <3>4
  <2>. QED  BY <2>15, <2>16, <2>17, <2>18 DEF LoopInv
<1>. QED  BY <1>2, <1>3

LEMMA ReinitOnStartKeeps ==
  ASSUME LoopInv, ReinitOnStart
  PROVE  LoopInv'
<1>1. /\ pc = "args" /\ pc' = "start" /\ flag.reinit_requested
      /\ UNCHANGED <<argv, rc, size_init>>
  BY DEF ReinitOnStart
<1>2. flag \in Flags /\ flag' = [flag EXCEPT !.reinited_on_start = TRUE]
  BY DEF LoopInv, LoopTypeOK, ReinitOnStart
<1>3. /\ flag' \in Flags /\ flag'.reinited_on_start
      /\ flag'.eval_commands = flag.eval_commands
      /\ flag'.will_eval_commands = flag.will_eval_commands
      /\ flag'.reinit_requested
  BY <1>1, <1>2 DEF Flags
<1>4. LoopTypeOK'
  BY <1>1, <1>3 DEF LoopInv, LoopTypeOK
<1>5. LeftToRun' /\ Loads'
  BY <1>1 DEF LeftToRun, Loads
<1>6. Resized'
  <2>. SUFFICES ASSUME NoRcReinit', flag'.eval_commands PROVE AfterReinit'
    BY <1>3 DEF Resized
  <2>1. NoRcReinit /\ flag.eval_commands
    BY <1>1, <1>3 DEF NoRcReinit
  <2>2. IF flag.reinited_on_start THEN AfterReinit ELSE BeforeReinit
    BY <1>1, <2>1 DEF LoopInv, Resized
  <2>3. BeforeReinit
    BY <1>1, <2>2 DEF AfterReinit
  <2>4. /\ Ran \in 1 .. Len(Lines) /\ Asks(Lines[Ran], "reinit") /\ NoReinit(Lines, Ran - 1)
        /\ SizesFrom(Lines, size_init, Ran - 1)
    BY <1>1, <2>3 DEF BeforeReinit
  <2>5. Lines' = Lines /\ size_init' = size_init
    BY <1>1 DEF Lines
  <2>. QED  BY <1>1, <1>3, <2>4, <2>5 DEF AfterReinit
<1>. QED  BY <1>4, <1>5, <1>6 DEF LoopInv

LEMMA ReadInputKeeps ==
  ASSUME LoopInv, ReadInput
  PROVE  LoopInv'
<1>1. /\ pc = "args" /\ pc' \in {"ended", "input"} /\ todo = <<>> /\ ~flag.reinit_requested
      /\ UNCHANGED <<argv, rc, size_init, size, loaded, refused>>
  BY DEF ReadInput, storage, open_files
<1>2. flag \in Flags /\ flag' = [flag EXCEPT !.eval_commands = flag.will_eval_commands,
                                             !.exit_on_error = FALSE, !.command_line = FALSE]
  BY DEF LoopInv, LoopTypeOK, ReadInput
<1>3. /\ flag' \in Flags
      /\ flag'.eval_commands = flag.will_eval_commands
      /\ flag'.will_eval_commands = flag.will_eval_commands
      /\ flag'.reinited_on_start = flag.reinited_on_start
      /\ flag'.reinit_requested = flag.reinit_requested
  BY <1>2 DEF Flags
<1>4. flag'.eval_commands => flag.eval_commands
  BY <1>3 DEF LoopInv, LoopTypeOK
<1>5. LoopTypeOK'
  BY <1>1, <1>3 DEF LoopInv, LoopTypeOK
<1>6. LeftToRun'
  BY <1>1 DEF LeftToRun
<1>7. Ran = Len(Lines) /\ Lines' = Lines
  <2>1. Len(todo) = 0
    BY <1>1, EmptySeq
  <2>2. PICK n \in Nat : Len(Lines) = n
    BY LoopTypes, Zenon DEF LoopInv
  <2>3. n - 0 = n
    BY <2>2
  <2>4. Ran = Len(Lines)
    BY <2>1, <2>2, <2>3, Zenon DEF Ran
  <2>. QED  BY <1>1, <2>4 DEF Lines
<1>8. Loads'
  <2>. SUFFICES ASSUME flag'.eval_commands, pc' = "input" PROVE LoadedTo(Lines, Len(Lines))'
    BY <1>1 DEF Loads
  <2>1. LoadedTo(Lines, Len(Lines))
    BY <1>1, <1>4, <1>7 DEF LoopInv, Loads
  <2>. QED  BY <1>1, <1>7, <2>1 DEF LoadedTo, Answered
<1>9. Resized'
  <2>. SUFFICES ASSUME NoRcReinit', flag'.eval_commands, pc' # "ended"
                PROVE  (IF flag.reinited_on_start THEN AfterReinit ELSE BeforeReinit)'
    BY DEF Resized
  <2>1. NoRcReinit /\ flag.eval_commands
    BY <1>1, <1>4 DEF NoRcReinit
  <2>2. IF flag.reinited_on_start THEN AfterReinit ELSE BeforeReinit
    BY <1>1, <2>1 DEF LoopInv, Resized
  <2>3. CASE flag.reinited_on_start
    <3>1. AfterReinit'
      BY <1>1, <1>3, <1>7, <2>2, <2>3 DEF AfterReinit
    <3>. QED  BY <1>3, <2>3, <3>1
  <2>4. CASE ~flag.reinited_on_start
    <3>1. NoReinit(Lines', Len(Lines'))
      BY <1>1, <1>7, <2>2, <2>4 DEF BeforeReinit
    <3>2. BeforeReinit'
      BY <1>1, <1>3, <3>1 DEF BeforeReinit
    <3>. QED  BY <1>3, <2>4, <3>2
  <2>. QED  BY <2>3, <2>4
<1>. QED  BY <1>5, <1>6, <1>8, <1>9 DEF LoopInv

LEMMA EvalKeeps ==
  ASSUME LoopInv, run_eval_minimal
  PROVE  LoopInv'
<1>1. pc = "input" /\ UNCHANGED <<argv, rc, size>>
  BY DEF run_eval_minimal, storage
<1>2. NoRcReinit /\ flag.eval_commands => ~flag.reinit_requested
  BY <1>1, NoneRequested DEF LoopInv
<1>3. CASE input = <<>>
  <2>1. pc' = "ended" /\ UNCHANGED <<flag, size_init>>
    BY <1>3 DEF run_eval_minimal
  <2>2. LoopTypeOK'
    BY <1>1, <2>1 DEF LoopInv, LoopTypeOK
  <2>3. LeftToRun' /\ Loads' /\ Resized'
    BY <2>1 DEF LeftToRun, Loads, Resized
  <2>. QED  BY <2>2, <2>3 DEF LoopInv
<1>4. CASE input # <<>> /\ Throws(Head(input))
  <2>1. Catch /\ UNCHANGED size_init
    BY <1>4 DEF run_eval_minimal, Thrown
  <2>. QED  BY <1>1, <1>2, <2>1, CatchKeeps
<1>5. CASE input # <<>> /\ ~Throws(Head(input))
  <2> DEFINE l == Head(input)
  <2>1. eval_command(l, flag') /\ pc' = IF Stops(flag') THEN "ended" ELSE "input"
    BY <1>5 DEF run_eval_minimal
  <2>2. FlagsAfter(l, flag')
    BY <2>1, FlagEffect DEF LoopInv, LoopTypeOK
  <2>3. /\ flag' \in Flags
        /\ flag'.eval_commands = flag.eval_commands
        /\ flag'.reinited_on_start = flag.reinited_on_start
        /\ ~flag.eval_commands => flag'.will_eval_commands = flag.will_eval_commands
    BY <2>2, Zenon DEF FlagsAfter
  <2>4. size_init' \in SizeTables /\ Answered \subseteq Answered'
    BY <2>1, SizeEffect, LoadEffect DEF LoopInv, LoopTypeOK
  <2>5. Lines' = Lines
    BY <1>1 DEF Lines
  <2>6. pc' \in {"ended", "input"} /\ (pc' # "ended" => ~flag'.reinit_requested)
    BY <2>1 DEF Stops
  <2>. HIDE DEF l
  <2>7. LoopTypeOK'
    BY <1>1, <2>3, <2>4, <2>6 DEF LoopInv, LoopTypeOK
  <2>8. LeftToRun'
    BY <2>6 DEF LeftToRun
  <2>9. Loads'
    <3>. SUFFICES ASSUME flag.eval_commands PROVE LoadedTo(Lines, Len(Lines))'
      BY <2>3, <2>6 DEF Loads
    <3>1. LoadedTo(Lines, Len(Lines))
      BY <1>1 DEF LoopInv, Loads
    <3>. QED  BY <2>4, <2>5, <3>1 DEF LoadedTo
  <2>10. Resized'
    <3>. SUFFICES ASSUME NoRcReinit', flag'.eval_commands, pc' # "ended"
                  PROVE  (IF flag.reinited_on_start THEN AfterReinit ELSE BeforeReinit)'
      BY DEF Resized
    <3>1. NoRcReinit /\ flag.eval_commands
      BY <1>1, <2>3 DEF NoRcReinit
    <3>2. IF flag.reinited_on_start THEN AfterReinit ELSE BeforeReinit
      BY <1>1, <3>1 DEF LoopInv, Resized
    <3>3. ~flag.reinit_requested /\ ~flag'.reinit_requested
      BY <1>2, <2>6, <3>1
    <3>4. CASE flag.reinited_on_start
      <4>1. AfterReinit'
        BY <1>1, <2>5, <3>2, <3>3, <3>4 DEF AfterReinit
      <4>. QED  BY <2>3, <3>4, <4>1
    <3>5. CASE ~flag.reinited_on_start
      <4>1. NoReinit(Lines', Len(Lines'))
        BY <1>1, <2>5, <3>2, <3>5 DEF BeforeReinit
      <4>2. BeforeReinit'
        BY <2>6, <3>3, <4>1 DEF BeforeReinit
      <4>. QED  BY <2>3, <3>5, <4>2
    <3>. QED  BY <3>4, <3>5
  <2>. QED  BY <2>7, <2>8, <2>9, <2>10 DEF LoopInv
<1>. QED  BY <1>3, <1>4, <1>5

LEMMA LoopKeeps == LoopInv /\ [LoopNext]_mainloop => LoopInv'
<1>. SUFFICES ASSUME LoopInv, [LoopNext]_mainloop PROVE LoopInv'
  OBVIOUS
<1>1. CASE Start
  BY <1>1, StartKeeps
<1>2. CASE load_rc
  BY <1>2, LoadRcKeeps
<1>3. CASE LexArguments
  BY <1>3, LexArgumentsKeeps
<1>4. CASE RunArgument
  BY <1>4, RunArgumentKeeps
<1>5. CASE ReinitOnStart
  BY <1>5, ReinitOnStartKeeps
<1>6. CASE ReadInput
  BY <1>6, ReadInputKeeps
<1>7. CASE run_eval_minimal
  BY <1>7, EvalKeeps
<1>8. CASE UNCHANGED mainloop
  <2>1. UNCHANGED <<argv, rc, pc, todo, flag, size_init, size, loaded, refused>>
    BY <1>8 DEF mainloop, storage, open_files
  <2>2. /\ Lines' = Lines /\ Ran' = Ran /\ NoRcReinit' = NoRcReinit
    BY <2>1 DEF Lines, Ran, NoRcReinit
  <2>3. LoopTypeOK' /\ LeftToRun'
    BY <2>1, <2>2 DEF LoopInv, LoopTypeOK, LeftToRun
  <2>4. Loads'
    BY <2>1, <2>2 DEF LoopInv, Loads, LoadedTo, Answered
  <2>5. AfterReinit' = AfterReinit /\ BeforeReinit' = BeforeReinit
    BY <2>1, <2>2 DEF AfterReinit, BeforeReinit
  <2>6. Resized'
    BY <2>1, <2>2, <2>5 DEF LoopInv, Resized
  <2>. QED  BY <2>3, <2>4, <2>6 DEF LoopInv
<1>. QED  BY <1>1, <1>2, <1>3, <1>4, <1>5, <1>6, <1>7, <1>8 DEF LoopNext

-----------------------------------------------------------------------------
(* The open files.                                                         *)

\* There is no room when a file has been refused.
OpenFiles ==
  /\ input \in Seq(RcLines)
  /\ size \in SizeTables /\ files_held \in Nat
  /\ pc \in {"rc", "args", "input"} /\ refused # {} => files_held = size.files

LEMMA FilesStart == LoopInit => OpenFiles
<1>. SUFFICES ASSUME LoopInit PROVE OpenFiles
  OBVIOUS
<1>1. PICK av \in Argvs, rc_lines \in RcFiles, lines \in Typed : LoopStart(av, rc_lines, lines)
  BY DEF LoopInit
<1>2. input \in Typed /\ size = Default /\ files_held = 0 /\ refused = {}
  BY <1>1 DEF LoopStart
<1>3. Typed \subseteq Seq(RcLines)
  BY LoopAssumption DEF RcLines
<1>4. size \in SizeTables
  BY <1>2, LoopAssumption DEF SizeTables
<1>. QED  BY <1>2, <1>3, <1>4 DEF OpenFiles

\* Loading.
LEMMA FilesLoaded ==
  ASSUME OpenFiles, UNCHANGED size, NEW l, l.operands \in Seq(STRING), eval_command(l, flag'),
         pc \in {"rc", "args", "input"}
  PROVE  files_held' \in Nat /\ (refused' # {} => files_held' = size'.files)
<1> DEFINE o == l.operands
           room == size.files
<1>1. room \in Nat
  BY LoopAssumption DEF OpenFiles, SizeTables
<1>2. files_held \in Nat /\ (refused # {} => files_held = room) /\ size'.files = room
  BY DEF OpenFiles
<1>3. CASE ~Runs(l, "load")
  <2>1. UNCHANGED <<files_held, refused>>
    BY <1>3 DEF eval_command, open_files
  <2>. QED  BY <1>2, <2>1
<1>4. CASE Runs(l, "load")
  <2>1. command_load(o)
    BY <1>4 DEF eval_command
  <2>2. Len(o) \in Nat /\ DOMAIN o = 1 .. Len(o)
    BY SeqFacts
  <2>. HIDE DEF o
  <2>3. /\ refused' = refused \cup {o[k] : k \in DOMAIN o \ Opened(o)}
        /\ files_held' = IF files_held + Len(o) <= room THEN files_held + Len(o) ELSE room
        /\ Opened(o) = {k \in DOMAIN o : files_held + k <= room}
    BY <2>1 DEF command_load, Opened
  <2>. HIDE DEF room
  <2>4. CASE files_held + Len(o) <= room
    <3>1. \A k \in DOMAIN o : files_held + k <= room
      BY <1>1, <1>2, <2>2, <2>4
    <3>2. DOMAIN o \ Opened(o) = {}
      BY <2>3, <3>1
    <3>3. refused' = refused
      BY <2>3, <3>2
    <3>4. files_held' = files_held + Len(o)
      BY <2>3, <2>4
    <3>. QED  BY <1>1, <1>2, <2>2, <2>4, <3>3, <3>4
  <2>5. CASE ~(files_held + Len(o) <= room)
    BY <1>1, <1>2, <2>3, <2>5
  <2>. QED  BY <2>4, <2>5
<1>. QED  BY <1>3, <1>4

\* An error.
LEMMA FilesThrown ==
  ASSUME files_held \in Nat, NEW l, l.operands \in Seq(STRING), Thrown(l)
  PROVE  files_held' \in Nat /\ pc' \notin {"rc", "args", "input"}
<1>1. PICK first \in Faults(l) :
        files_held' = IF Runs(l, "load") THEN files_held + first ELSE files_held
  BY DEF Thrown
<1>2. DOMAIN l.operands = 1 .. Len(l.operands) /\ Len(l.operands) \in Nat
  BY SeqFacts
<1>3. first \in DOMAIN l.operands
  BY DEF Faults, Opened
<1>4. first \in Nat
  BY <1>2, <1>3
<1>5. pc' = "ended" \/ pc' = "start"
  BY DEF Thrown, Catch
<1>. QED  BY <1>1, <1>4, <1>5

LEMMA FilesKept == LoopInv /\ OpenFiles /\ [LoopNext]_mainloop => OpenFiles'
<1>. SUFFICES ASSUME LoopInv, OpenFiles, [LoopNext]_mainloop PROVE OpenFiles'
  OBVIOUS
<1>1. size \in SizeTables /\ files_held \in Nat /\ input \in Seq(RcLines)
  BY DEF OpenFiles
<1>2. CASE Start
  <2>1. UNCHANGED input /\ refused' = {} /\ (size' = size \/ size' = size_init)
        /\ (files_held' = 0 \/ files_held' = files_held)
    BY <1>2 DEF Start, alloc_all, storage
  <2>2. size_init \in SizeTables
    BY DEF LoopInv, LoopTypeOK
  <2>. QED  BY <1>1, <2>1, <2>2 DEF OpenFiles
<1>3. CASE load_rc
  <2>1. pc = "rc" /\ todo # <<>> /\ UNCHANGED <<input, size>>
    BY <1>3 DEF load_rc, storage
  <2>2. Head(todo) \in RcLines
    <3>1. todo \in Seq(RcLines)
      BY <2>1 DEF LoopInv, LeftToRun
    <3>. QED  BY <2>1, <3>1, TailFacts
  <2>3. Head(todo).operands \in Seq(STRING)
    BY <2>2 DEF RcLines
  <2>4. CASE Throws(Head(todo))
    <3>1. Thrown(Head(todo))
      BY <1>3, <2>4 DEF load_rc
    <3>2. files_held' \in Nat /\ pc' \notin {"rc", "args", "input"}
      BY <1>1, <2>3, <3>1, FilesThrown
    <3>. QED  BY <1>1, <2>1, <3>2 DEF OpenFiles
  <2>5. CASE ~Throws(Head(todo))
    <3>1. eval_command(Head(todo), flag')
      BY <1>3, <2>5 DEF load_rc
    <3>2. files_held' \in Nat /\ (refused' # {} => files_held' = size'.files)
      BY <2>1, <2>3, <3>1, FilesLoaded
    <3>. QED  BY <1>1, <2>1, <3>2 DEF OpenFiles
  <2>. QED  BY <2>4, <2>5
<1>4. CASE LexArguments
  <2>1. UNCHANGED <<input, size, files_held, refused>> /\ pc = "rc"
    BY <1>4 DEF LexArguments, storage, open_files
  <2>. QED  BY <2>1 DEF OpenFiles
<1>5. CASE RunArgument
  <2>1. pc = "args" /\ todo # <<>> /\ UNCHANGED <<input, size>>
    BY <1>5 DEF RunArgument, storage
  <2>2. Head(todo) \in ArgLines
    <3>1. todo \in Seq(ArgLines)
      BY <2>1 DEF LoopInv, LeftToRun
    <3>. QED  BY <2>1, <3>1, TailFacts
  <2>3. Head(todo).operands \in Seq(STRING)
    BY <2>2 DEF ArgLines
  <2>4. CASE Throws(Head(todo))
    <3>1. Thrown(Head(todo))
      BY <1>5, <2>4 DEF RunArgument
    <3>2. files_held' \in Nat /\ pc' \notin {"rc", "args", "input"}
      BY <1>1, <2>3, <3>1, FilesThrown
    <3>. QED  BY <1>1, <2>1, <3>2 DEF OpenFiles
  <2>5. CASE ~Throws(Head(todo))
    <3>1. eval_command(Head(todo), flag')
      BY <1>5, <2>5 DEF RunArgument
    <3>2. files_held' \in Nat /\ (refused' # {} => files_held' = size'.files)
      BY <2>1, <2>3, <3>1, FilesLoaded
    <3>. QED  BY <1>1, <2>1, <3>2 DEF OpenFiles
  <2>. QED  BY <2>4, <2>5
<1>6. CASE ReinitOnStart
  <2>1. UNCHANGED <<input, size, files_held>> /\ pc' = "start"
    BY <1>6 DEF ReinitOnStart, storage, open_files
  <2>. QED  BY <1>1, <2>1 DEF OpenFiles
<1>7. CASE ReadInput
  <2>1. UNCHANGED <<input, size, files_held, refused>> /\ pc = "args"
    BY <1>7 DEF ReadInput, storage, open_files
  <2>. QED  BY <2>1 DEF OpenFiles
<1>8. CASE run_eval_minimal
  <2>1. pc = "input" /\ UNCHANGED size
    BY <1>8 DEF run_eval_minimal, storage
  <2>2. CASE input = <<>>
    <3>1. UNCHANGED <<input, files_held>> /\ pc' = "ended"
      BY <1>8, <2>2 DEF run_eval_minimal, open_files
    <3>. QED  BY <1>1, <2>1, <3>1 DEF OpenFiles
  <2>3. CASE input # <<>>
    <3>1. Head(input) \in RcLines /\ Tail(input) \in Seq(RcLines)
      BY <1>1, <2>3, TailFacts
    <3>2. input' = Tail(input) /\ Head(input).operands \in Seq(STRING)
      BY <1>8, <2>3, <3>1 DEF run_eval_minimal, RcLines
    <3>3. CASE Throws(Head(input))
      <4>1. Thrown(Head(input))
        BY <1>8, <2>3, <3>3 DEF run_eval_minimal
      <4>2. files_held' \in Nat /\ pc' \notin {"rc", "args", "input"}
        BY <1>1, <3>2, <4>1, FilesThrown
      <4>. QED  BY <1>1, <2>1, <3>1, <3>2, <4>2 DEF OpenFiles
    <3>4. CASE ~Throws(Head(input))
      <4>1. eval_command(Head(input), flag')
        BY <1>8, <2>3, <3>4 DEF run_eval_minimal
      <4>2. files_held' \in Nat /\ (refused' # {} => files_held' = size'.files)
        BY <2>1, <3>2, <4>1, FilesLoaded
      <4>. QED  BY <1>1, <2>1, <3>1, <3>2, <4>2 DEF OpenFiles
    <3>. QED  BY <3>3, <3>4
  <2>. QED  BY <2>2, <2>3
<1>9. CASE UNCHANGED mainloop
  <2>1. UNCHANGED <<input, size, files_held, refused, pc>>
    BY <1>9 DEF mainloop, storage, open_files
  <2>. QED  BY <2>1 DEF OpenFiles
<1>. QED  BY <1>2, <1>3, <1>4, <1>5, <1>6, <1>7, <1>8, <1>9 DEF LoopNext

-----------------------------------------------------------------------------
\* The line of a word of the arguments that asks for something, and the word of a line.
LEMMA LineOf ==
  ASSUME LoopTypeOK, NEW p, Cut(argv, Len(argv), Lines, p), NEW c, NEW i \in Asking(c)
  PROVE  \E k \in 1 .. Len(Lines) : /\ p[k] = i /\ Asks(Lines[k], c)
                                    /\ Lines[k].operands = Given(i)
<1>1. argv \in Seq(ArgWords) /\ argv \in Argvs
  BY LoopTypes DEF LoopTypeOK
<1>2. i \in DOMAIN argv /\ argv[i].dash /\ CommandOf(argv[i].name) = c
  BY DEF Asking
<1>3. argv[i].name # ""
  BY <1>1, <1>2, LoopAssumption
<1>4. i \in 1 .. Len(argv)
  BY <1>1, <1>2, SeqFacts
<1>5. PICK k \in 1 .. Len(Lines) : p[k] = i
  BY <1>2, <1>4 DEF Cut
<1>6. Lines[k].operands = Given(i)
  BY <1>1, <1>2, <1>5, GivenOperands
<1>7. LineFrom(argv, Lines[k], p[k], EndOf(Lines, p, Len(argv), k))
  BY <1>5 DEF Cut
<1>8. Asks(Lines[k], c)
  BY <1>2, <1>3, <1>5, <1>7 DEF LineFrom, Asks
<1>. QED  BY <1>5, <1>6, <1>8

LEMMA WordOf ==
  ASSUME LoopTypeOK, NEW p, Cut(argv, Len(argv), Lines, p), NEW c,
         NEW k \in 1 .. Len(Lines), Asks(Lines[k], c)
  PROVE  p[k] \in Asking(c) /\ Lines[k].operands = Given(p[k])
<1>1. argv \in Seq(ArgWords)
  BY LoopTypes
<1>2. LineFrom(argv, Lines[k], p[k], EndOf(Lines, p, Len(argv), k))
  BY DEF Cut
<1>3. argv[p[k]].dash /\ CommandOf(argv[p[k]].name) = c
  BY <1>2 DEF LineFrom, Asks
<1>4. p[k] \in DOMAIN argv
  <2>1. p[k] \in 1 .. Len(argv)
    BY DEF Cut
  <2>. QED  BY <1>1, <2>1, SeqFacts
<1>. QED  BY <1>1, <1>3, <1>4, GivenOperands DEF Asking

\* Of two lines, the one whose word is first is first.
LEMMA InTheirOrder ==
  ASSUME NEW av, NEW n \in Nat, NEW ls, NEW p, Cut(av, n, ls, p),
         NEW k \in 1 .. Len(ls), NEW m \in 1 .. Len(ls)
  PROVE  /\ k \in Nat /\ m \in Nat /\ p[k] \in Nat /\ p[m] \in Nat
         /\ k < m <=> p[k] < p[m]
         /\ k = m <=> p[k] = p[m]
<1>1. ls \in Seq(ArgLines) /\ p \in [1 .. Len(ls) -> 1 .. n]
  BY DEF Cut
<1>2. k \in Nat /\ m \in Nat
  <2>1. Len(ls) \in Nat
    BY <1>1, SeqFacts
  <2>. QED  BY <2>1
<1>3. p[k] \in Nat /\ p[m] \in Nat
  <2>1. p[k] \in 1 .. n /\ p[m] \in 1 .. n
    BY <1>1
  <2>. QED  BY <2>1
<1>4. (k < m => p[k] < p[m]) /\ (m < k => p[m] < p[k])
  BY DEF Cut
<1>. QED  BY <1>2, <1>3, <1>4

LEMMA InForce == LoopInv /\ OpenFiles => ArgumentsInForce
<1>. SUFFICES ASSUME LoopInv, OpenFiles, pc = "input", flag.eval_commands
              PROVE  /\ \A i \in Asking("load") : ToSet(Given(i)) \subseteq loaded \cup refused
                     /\ refused # {} => files_held = size.files
                     /\ NoRcReinit =>
                          \A r \in Asking("reinit") : (\A q \in Asking("reinit") : r <= q) =>
                            LET S == {i \in Asking("size_param") : i < r /\ SetsSize(Given(i))}
                            IN  \A i \in S : (\A j \in S : Given(j)[1] = Given(i)[1] => j <= i) =>
                                  size[Given(i)[1]] = Numbers[Given(i)[2]]
  BY DEF ArgumentsInForce, NoRcReinit
<1>1. LoopTypeOK /\ argv \in Seq(ArgWords) /\ Len(argv) \in Nat
  BY LoopTypes, SeqFacts DEF LoopInv
<1>2. PICK p : Cut(argv, Len(argv), Lines, p)
  BY <1>1, LinesOfArguments DEF Lines
<1>0. refused # {} => files_held = size.files
  BY DEF OpenFiles
<1>3. ASSUME NEW i \in Asking("load") PROVE ToSet(Given(i)) \subseteq loaded \cup refused
  <2>1. PICK k \in 1 .. Len(Lines) : Asks(Lines[k], "load") /\ Lines[k].operands = Given(i)
    BY <1>1, <1>2, LineOf
  <2>2. LoadedTo(Lines, Len(Lines))
    BY DEF LoopInv, Loads
  <2>. QED  BY <2>1, <2>2 DEF LoadedTo, Answered
<1>4. ASSUME NoRcReinit, NEW r \in Asking("reinit"), \A q \in Asking("reinit") : r <= q
      PROVE  LET S == {i \in Asking("size_param") : i < r /\ SetsSize(Given(i))}
             IN  \A i \in S : (\A j \in S : Given(j)[1] = Given(i)[1] => j <= i) =>
                   size[Given(i)[1]] = Numbers[Given(i)[2]]
  <2> DEFINE S == {i \in Asking("size_param") : i < r /\ SetsSize(Given(i))}
  <2>1. PICK k \in 1 .. Len(Lines) : p[k] = r /\ Asks(Lines[k], "reinit")
    BY <1>1, <1>2, LineOf
  <2>2. IF flag.reinited_on_start THEN AfterReinit ELSE BeforeReinit
    BY <1>4 DEF LoopInv, Resized
  <2>3. flag.reinited_on_start
    <3>1. ~BeforeReinit
      BY <2>1 DEF BeforeReinit, NoReinit
    <3>. QED  BY <2>2, <3>1
  <2>4. PICK q \in 1 .. Len(Lines) : /\ Asks(Lines[q], "reinit") /\ NoReinit(Lines, q - 1)
                                     /\ SizesFrom(Lines, size, q - 1)
    BY <2>2, <2>3 DEF AfterReinit
  <2>5. q = k
    <3>1. r <= p[q]
      BY <1>1, <1>2, <1>4, <2>4, WordOf
    <3>2. /\ k \in Nat /\ q \in Nat /\ p[k] \in Nat /\ p[q] \in Nat
          /\ q < k <=> p[q] < p[k]
      BY <1>1, <1>2, <2>1, <2>4, InTheirOrder
    <3>3. ~(q < k)
      BY <2>1, <3>1, <3>2
    <3>4. ~(k < q)
      <4>. SUFFICES ASSUME k < q PROVE FALSE
        OBVIOUS
      <4>0. k \in 1 .. Len(Lines)
        BY <2>1
      <4>1. k \in 1 .. q - 1
        BY <3>2, <4>0
      <4>. QED  BY <2>1, <2>4, <4>1 DEF NoReinit
    <3>. QED  BY <3>2, <3>3, <3>4
  <2>6. ASSUME NEW i \in S, \A j \in S : Given(j)[1] = Given(i)[1] => j <= i
        PROVE  size[Given(i)[1]] = Numbers[Given(i)[2]]
    <3>1. i \in Asking("size_param") /\ i < r /\ SetsSize(Given(i))
      OBVIOUS
    <3>2. PICK h \in 1 .. Len(Lines) : /\ p[h] = i /\ Asks(Lines[h], "size_param")
                                       /\ Lines[h].operands = Given(i)
      BY <1>1, <1>2, <3>1, LineOf
    <3>3. h \in 1 .. q - 1
      <4>1. h \in Nat /\ k \in Nat /\ (h < k <=> p[h] < p[k]) /\ h \in 1 .. Len(Lines)
        BY <1>1, <1>2, <2>1, <3>2, InTheirOrder
      <4>2. h < k
        BY <2>1, <3>1, <3>2, <4>1
      <4>. QED  BY <2>5, <4>1, <4>2
    <3>4. SizeLine(Lines[h])
      BY <3>1, <3>2 DEF SizeLine
    <3>5. ASSUME NEW m \in h + 1 .. q - 1, SizeLine(Lines[m]),
                 Lines[m].operands[1] = Lines[h].operands[1]
          PROVE  FALSE
      <4>1. h \in Nat /\ q \in Nat /\ Len(Lines) \in Nat /\ q <= Len(Lines) /\ 1 <= h
        <5>1. Len(Lines) \in Nat /\ q \in 1 .. Len(Lines) /\ h \in 1 .. Len(Lines)
          BY <1>1, <2>4, <3>2, LoopTypes
        <5>. QED  BY <5>1
      <4>2. m \in 1 .. Len(Lines) /\ h < m /\ m < k
        BY <2>5, <4>1
      <4>3. Asks(Lines[m], "size_param") /\ SetsSize(Lines[m].operands)
        BY <3>5 DEF SizeLine
      <4>4. p[m] \in Asking("size_param") /\ Lines[m].operands = Given(p[m])
        BY <1>1, <1>2, <4>2, <4>3, WordOf
      <4>5. /\ p[m] \in Nat /\ p[h] \in Nat /\ p[h] < p[m]
        BY <1>1, <1>2, <3>2, <4>2, InTheirOrder
      <4>6. p[m] < p[k]
        BY <1>1, <1>2, <2>1, <4>2, InTheirOrder
      <4>7. p[m] \in S
        BY <2>1, <4>3, <4>4, <4>6
      <4>8. Given(p[m])[1] = Given(i)[1]
        BY <3>2, <3>5, <4>4
      <4>9. p[m] <= i
        BY <2>6, <4>7, <4>8
      <4>. QED  BY <3>2, <4>5, <4>9
    <3>6. size[Lines[h].operands[1]] = Numbers[Lines[h].operands[2]]
      BY <2>4, <3>3, <3>4, <3>5 DEF SizesFrom
    <3>. QED  BY <3>2, <3>6
  <2>. QED  BY <2>6
<1>. QED  BY <1>0, <1>3, <1>4

\* However often the program starts again, and after whatever error: when a
\* line is read and commands are run, what the arguments ask to load is loaded
\* or was refused because as many files are open as there is room for; and if
\* the rc file asks for no reinit, the memory has the sizes that the arguments
\* give before their first reinit (main(), load_file()).
THEOREM ArgumentsApplied == LoopSpec => []ArgumentsInForce
<1>1. LoopInit => LoopInv /\ OpenFiles
  BY LoopStarts, FilesStart
<1>2. LoopInv /\ OpenFiles /\ [LoopNext]_mainloop => LoopInv' /\ OpenFiles'
  BY LoopKeeps, FilesKept
<1>3. LoopInv /\ OpenFiles => ArgumentsInForce
  BY InForce
<1>. QED  BY <1>1, <1>2, <1>3, PTL DEF LoopSpec
=============================================================================
