-------------------------------- MODULE Mail --------------------------------
(***************************************************************************)
(* Mail with attachments: src/src/map/mail.c on the map server,            *)
(* src/src/char/int_mail.c with the mail boxes on the char server.  Texts, *)
(* dates and the read flag are left out.                                   *)
(***************************************************************************)
EXTENDS Link

CONSTANTS
  BoxSize,  \* MAIL_STORE_MAX
  MaxMails  \* bound: mails that are sent

ASSUME MailAssumption == BoxSize \in Nat \ {0} /\ MaxMails \in Nat

VARIABLES
  append,  \* mail_append of each session
  box,     \* mail box of each player, the oldest mail first
  rates,   \* mails each box has ever had: the next number
  taken,   \* history: <<player, number>> of attachments handed out
  hasty    \* history: players who asked for an attachment before an earlier
           \* answer

mails == <<append, box, rates, taken, hasty>>

NoAppend == [slot |-> 0, amount |-> 0, zeny |-> 0]
Nothing  == [kind |-> None, amount |-> 0, zeny |-> 0]
Package  == [kind : Kinds \cup {None}, amount : 0..MaxAmount, zeny : 0..MaxZeny]
Mail     == [num : 1..MaxMails, load : Package]
MailOps  == {"check", "send", "get", "strip", "delete"}
MailAnswers == {"checked", "failed", "sent", "attachment"}
MailMessage(ops) == [op : ops, by : Players, to : Players \cup {None},
                     num : 0..MaxMails, load : Package]

TypeOKMail ==
  /\ append \in [Players -> [slot : 0..InvSize, amount : 0..MaxAmount, zeny : 0..MaxZeny]]
  /\ box \in [Players -> Seq(Mail)]
  /\ rates \in [Players -> 0..MaxMails]
  /\ taken \subseteq Players \X (1..MaxMails)
  /\ hasty \subseteq Players

InitMail ==
  /\ append = [p \in Players |-> NoAppend]
  /\ box = [p \in Players |-> <<>>]
  /\ rates = [p \in Players |-> 0]
  /\ taken = {} /\ hasty = {}

MailAsks(op, p, q, n, load) == Asks([op |-> op, by |-> p, to |-> q, num |-> n, load |-> load])

\* Bound: a player waits with a mail when there have been enough.
MailsLeft ==
  MapThenSumSet(LAMBDA q : rates[q], Players)
    + Len(SelectSeq(up \o down, LAMBDA m : m.op \in {"check", "checked", "send"})) < MaxMails

Attached(load) == load.kind # None \/ load.zeny > 0

\* mail_removeitem: back goes the item unless flag & 2, the zeny unless flag & 1.
Detached(a, flag) ==
  [slot   |-> IF flag \in {0, 1} THEN 0 ELSE a.slot,
   amount |-> IF flag \in {0, 1} THEN 0 ELSE a.amount,
   zeny   |-> IF flag \in {0, 2} THEN 0 ELSE a.zeny]

\* mail_removeitem(sd, flag), with the flag mail_appending.
Detach(p, flag) ==
  /\ append' = [append EXCEPT ![p] = Detached(@, flag)]
  /\ mailing' = IF append'[p].slot = 0 /\ append'[p].zeny = 0 THEN mailing \ {p} ELSE mailing

-----------------------------------------------------------------------------
(* The map server *)

\* mail_setitem.  Nothing is taken yet, and neither a trade nor a shop of
\* the player is looked at.
SetAppend(p) ==
  /\ "mail" \in can[p] /\ p \in online
  /\ \/ \E n \in 0..zeny[p] : append' = [append EXCEPT ![p].zeny = n]
     \/ \E s \in Slots : \E n \in 1..inv[p][s].amount :
          append' = [append EXCEPT ![p].slot = s, ![p].amount = n]
  /\ mailing' = mailing \cup {p}
  /\ UNCHANGED <<goods, store, trades, link, box, rates, taken, hasty>>

\* clif_parse_MailWinOpen
MailWinOpen(p) ==
  /\ p \in online /\ append[p] # NoAppend
  /\ \E flag \in 0..3 : Detach(p, flag)
  /\ UNCHANGED <<goods, store, trades, link, box, rates, taken, hasty>>

\* The attachment is still there: the conditions of mail_checkappend.
Covered(p) ==
  LET a == append[p] IN
  /\ a.zeny <= zeny[p]
  /\ a.amount > 0 => inv[p][a.slot].kind # None /\ inv[p][a.slot].amount >= a.amount

\* mail_sendmail: the attachment is taken now, or nothing is sent.
SendMail(p, q) ==
  LET a    == append[p]
      load == [kind   |-> IF a.amount > 0 THEN inv[p][a.slot].kind ELSE None,
               amount |-> a.amount, zeny |-> a.zeny]
  IN  /\ \/ /\ Covered(p)
            /\ MailAsks("send", p, q, 0, load)
            /\ inv' = IF a.amount > 0 THEN [inv EXCEPT ![p] = DelItem(@, a.slot, a.amount)] ELSE inv
            /\ zeny' = [zeny EXCEPT ![p] = @ - a.zeny]
         \/ ~Covered(p) /\ UNCHANGED <<inv, zeny, up>>
      /\ append' = [append EXCEPT ![p] = NoAppend]
      /\ mailing' = mailing \ {p}

\* mail_checkmail: to a player with a session at once; the char server is
\* asked about any other name, and what is attached may change meanwhile.
CheckMail(p) ==
  /\ "mail" \in can[p] /\ p \in online
  /\ \/ Detach(p, 0) /\ append[p] # NoAppend /\ UNCHANGED <<inv, zeny, up>>
     \/ \E q \in Players \ (away \cup {p}) : LinkHasRoom /\ MailsLeft /\ SendMail(p, q)
     \/ \E q \in away \cup {None} :
          /\ LinkHasRoom /\ MailsLeft
          /\ MailAsks("check", p, q, 0, Nothing)
          /\ UNCHANGED <<inv, zeny, append, mailing>>
  /\ UNCHANGED <<cart, store, trades, linked, down, record, box, rates, taken, hasty>>

\* clif_parse_MailGetAppend, clif_parse_DeleteMail
GetAppendReq(p) ==
  \E m \in Range(box[p]) :
    /\ p \in online /\ "box" \in can[p] /\ LinkHasRoom
    /\ MailAsks("get", p, None, m.num, Nothing)
    /\ hasty' = IF Pending(p, {"get", "attachment"}) = {} THEN hasty ELSE hasty \cup {p}
    /\ UNCHANGED <<goods, store, mailing, trades, append, linked, down, record, box, rates, taken>>

DeleteReq(p) ==
  \E m \in Range(box[p]) :
    /\ p \in online /\ "box" \in can[p] /\ LinkHasRoom
    /\ MailAsks("delete", p, None, m.num, Nothing)
    /\ UNCHANGED <<goods, store, mailing, trades, append, linked, down, record, box, rates,
                   taken, hasty>>

\* Mutant: the char server is not told that the attachment is gone.
NotStripped(p, m) == UNCHANGED up

\* intif_mail_deleteappend
Stripped(p, m) == MailAsks("strip", p, None, m.num, Nothing)

\* mail_getappend accepts an item only when the player has one of its nameid;
\* what pc_additem answers is not looked at.
TakeAttachment(m) ==
  LET p    == m.by
      load == m.load
      ok   == /\ load.kind # None => CheckAddItem(inv[p], load.kind, load.amount) = "exist"
              /\ zeny[p] + load.zeny <= MaxZeny
  IN  /\ m.op = "attachment"
      /\ \/ /\ ok /\ p \notin away
            /\ inv' = [inv EXCEPT ![p] = AddItem(@, load.kind, load.amount)]
            /\ zeny' = [zeny EXCEPT ![p] = @ + load.zeny]
            /\ taken' = taken \cup {<<p, m.num>>}
            /\ Stripped(p, m)
         \/ (p \in away \/ ~ok) /\ UNCHANGED <<inv, zeny, taken, up>>
      /\ UNCHANGED <<append, mailing>>

\* intif_parse_MailCheckOK, intif_parse_MailSendRes.  Who has connected again
\* sends the mail with nothing attached.
Checked(m) ==
  /\ m.op = "checked"
  /\ \/ Found(m.by) /\ SendMail(m.by, m.to)
     \/ ~Found(m.by) /\ UNCHANGED <<inv, zeny, up, append, mailing>>
  /\ UNCHANGED taken

SendRes(m) ==
  /\ m.op \in {"sent", "failed"}
  /\ IF m.op = "failed" /\ m.by \notin away THEN Detach(m.by, 0)
                                           ELSE UNCHANGED <<append, mailing>>
  /\ UNCHANGED <<inv, zeny, up, taken>>

MapReceivesMail ==
  /\ down # <<>>
  /\ TakeAttachment(Head(down)) \/ Checked(Head(down)) \/ SendRes(Head(down))
  /\ down' = Tail(down)
  /\ UNCHANGED <<cart, store, trades, linked, record, box, rates, hasty>>

-----------------------------------------------------------------------------
(* The char server *)

MailAnswer(op, m, load) ==
  Answers(<<[op |-> op, by |-> m.by, to |-> m.to, num |-> m.num, load |-> load]>>)

\* mapif_parse_CheckMail
CharCheck(m) ==
  /\ m.op = "check"
  /\ MailAnswer(IF m.to = None THEN "failed" ELSE "checked", m, Nothing)
  /\ UNCHANGED <<box, rates>>

\* mapif_parse_SendMail: a full box loses its oldest mail.
CharSend(m) ==
  LET q    == m.to
      kept == IF Len(box[q]) >= BoxSize THEN Tail(box[q]) ELSE box[q]
  IN  /\ m.op = "send"
      /\ rates' = [rates EXCEPT ![q] = @ + 1]
      /\ box' = [box EXCEPT ![q] = Append(kept, [num |-> rates[q] + 1, load |-> m.load])]
      /\ MailAnswer("sent", m, Nothing)

\* mapif_parse_GetAppend: only a mail that still has something attached.
CharGet(m) ==
  LET found == {x \in Range(box[m.by]) : x.num = m.num /\ Attached(x.load)}
  IN  /\ m.op = "get"
      /\ IF found = {} THEN UNCHANGED down
         ELSE MailAnswer("attachment", m, (CHOOSE x \in found : TRUE).load)
      /\ UNCHANGED <<box, rates>>

\* mapif_parse_DeleteAppend
CharStrip(m) ==
  /\ m.op = "strip"
  /\ box' = [box EXCEPT ![m.by] =
               [i \in DOMAIN @ |-> IF @[i].num = m.num THEN [@[i] EXCEPT !.load = Nothing]
                                                       ELSE @[i]]]
  /\ UNCHANGED <<down, rates>>

\* mapif_parse_DeleteMail: whatever is attached.
CharDelete(m) ==
  /\ m.op = "delete"
  /\ box' = [box EXCEPT ![m.by] = SelectSeq(@, LAMBDA x : x.num # m.num)]
  /\ UNCHANGED <<down, rates>>

CharReceivesMail ==
  /\ up # <<>>
  /\ LET m == Head(up) IN
       CharCheck(m) \/ CharSend(m) \/ CharGet(m) \/ CharStrip(m) \/ CharDelete(m)
  /\ up' = Tail(up)
  /\ UNCHANGED <<goods, store, mailing, trades, append, linked, record, taken, hasty>>

=============================================================================
