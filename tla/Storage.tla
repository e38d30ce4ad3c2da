------------------------------ MODULE Storage -------------------------------
(***************************************************************************)
(* internal/storage/imapsql and what works on it: message deliveries with  *)
(* quotas, the IMAP endpoint, the account and mailbox subcommands of maddy *)
(* and the REST API.  The database outlives the processes; a change that a *)
(* process makes is reported through UpdatePipe.                           *)
(*                                                                         *)
(* The backend is go-imap-sql, a library: accounts have mailboxes, which   *)
(* hold copies of messages, and a delivery is one transaction from Body to *)
(* Commit.  All messages have size 1.                                      *)
(***************************************************************************)
EXTENDS UpdatePipe, Integers, SequencesExt

CONSTANTS
    Accounts,
    Boxes,          \* mailboxes an account may have; Inbox is one
    Inbox, Junk,
    Deliveries,
    Rcpts,          \* recipient addresses
    To,             \* those of each delivery
    AccountOf,      \* what delivery_normalize and delivery_map make of them
    NoAccount,
    DomainOf,       \* domain of the account's name
    Domains,
    Quotas,         \* quotas that the administrator sets
    Initial,        \* sets of accounts to begin with
    DomainQuota,    \* rows of the table domain_quotas to begin with
    Managed,        \* accounts that administrators work on
    Named,          \* mailboxes the configuration block names
    MaxEvents,      \* bound on what users and administrators do
    MaxUsed         \* bound on what they store

ASSUME StorageAssumption ==
    /\ Inbox \in Boxes /\ Junk \in Boxes
    /\ AccountOf \in [Rcpts -> Accounts \union {NoAccount}]
    /\ To \in [Deliveries -> SUBSET Rcpts]
    /\ NoAccount \notin Accounts
    /\ "appended" \notin Deliveries
    /\ DomainOf \in [Accounts -> Domains]
    /\ Quotas \subseteq Nat /\ Initial \subseteq SUBSET Accounts
    /\ Managed \subseteq Accounts
    /\ DomainQuota \in [Domains -> Nat \union {-1}]
    /\ IsFiniteSet(Boxes) /\ IsFiniteSet(Deliveries)
    /\ Named \subseteq Boxes
    /\ Keys = Accounts \X Boxes

VARIABLES
    accts,          \* accounts that exist
    boxes,          \* mailboxes of each account
    copies,         \* copies of each message in each mailbox
    userQuota, domainQuota,     \* rows of the two tables; NoRow when none
    creds,          \* user names in the credentials table
    dkimKeys,       \* domains that have a signing key
    dlv,            \* deliveries
    session,        \* an IMAP session
    cli,            \* the maddy command
    api,            \* a request of the REST API
    up,             \* the server process runs
    events          \* what users and administrators have done so far

dbVars == <<accts, boxes, copies, userQuota, domainQuota, creds, dkimKeys>>
procVars == <<dlv, session, cli, api, up, events>>
vars == <<dbVars, procVars, pipeVars>>

NoRow == -1
Appended == "appended"          \* a message that no delivery brought
Msgs == Deliveries \union {Appended}
Empty == [b \in Boxes |-> [m \in Msgs |-> 0]]

\* The copies in the mailboxes bs of an account, each with a number of its own.
Held(bs, cs) == UNION {{<<b, m>>} \X (1 .. cs[b][m]) : b \in bs, m \in Msgs}

\* Size of what an account has.
Used(a) == Cardinality(Held(boxes[a], copies[a]))
UsedNext(a) == Cardinality(Held(boxes'[a], copies'[a]))

\* The commands of imap-mboxes, imap-msgs and imap-acct.  Those that print
\* stand together in mboxesList and msgsList, those on flags in msgsFlags.
MboxesCmds == {"mboxesList", "mboxesCreate", "mboxesRemove", "mboxesRename"}
MsgsCmds == {"msgsAdd", "msgsFlags", "msgsRemove", "msgsCopy", "msgsMove",
             "msgsList"}
AcctCmds == {"imapAcctCreate", "imapAcctRemove"}
CliCmds == MboxesCmds \union MsgsCmds \union AcctCmds
ApiOps == {"createUser", "createImapAccount", "deleteUser", "setUserQuota",
           "setDomainQuota", "getUserQuota", "getDomainQuota"}

NewDelivery == [pc |-> "idle", users |-> [a \in Accounts |-> 0], todo |-> {},
                seen |-> [a \in Accounts |-> <<0, 0>>]]
NoCommand == [pc |-> "idle", cmd |-> "mboxesList", a |-> NoAccount, b |-> Inbox,
              to |-> Inbox]
NoRequest == [pc |-> "idle", op |-> "deleteUser", a |-> NoAccount, q |-> 0,
              boxes |-> FALSE, found |-> FALSE, report |-> <<0, 0>>]

TypeOK ==
    /\ PipeTypeOK
    /\ accts \subseteq Accounts
    /\ boxes \in [Accounts -> SUBSET Boxes]
    /\ copies \in [Accounts -> [Boxes -> [Msgs -> Nat]]]
    /\ userQuota \in [Accounts -> Quotas \union {NoRow}]
    /\ domainQuota \in [Domains -> Int]
    /\ creds \subseteq Accounts /\ dkimKeys \subseteq Domains
    /\ dlv \in [Deliveries -> [pc : {"idle", "open", "body", "checked",
                                     "stored", "failed", "committed",
                                     "aborted"},
                               users : [Accounts -> Nat],
                               todo : SUBSET Accounts,
                               seen : [Accounts -> Nat \X Nat]]]
    /\ session \in [pc : {"none", "auth", "selected"},
                    a : Accounts \union {NoAccount}, b : Boxes]
    /\ cli \in [pc : {"idle", "open", "ready", "closing"}, cmd : CliCmds,
                a : Accounts \union {NoAccount}, b : Boxes, to : Boxes]
    /\ api \in [pc : {"idle", "listed", "account", "mailboxes", "exists", "ok",
                      "failed"},
                op : ApiOps, a : Accounts \union {NoAccount},
                q : Quotas \union {0}, boxes : BOOLEAN, found : BOOLEAN,
                report : Nat \X Nat]
    /\ up \in BOOLEAN
    /\ events \in 0 .. MaxEvents

Init ==
    /\ PipeInit
    /\ accts \in Initial
    /\ boxes = [a \in Accounts |-> IF a \in accts THEN {Inbox} ELSE {}]
    /\ copies = [a \in Accounts |-> Empty]
    /\ userQuota = [a \in Accounts |-> NoRow]
    /\ domainQuota = DomainQuota
    /\ creds = accts /\ dkimKeys = {}
    /\ dlv = [d \in Deliveries |-> NewDelivery]
    /\ session = [pc |-> "none", a |-> NoAccount, b |-> Inbox]
    /\ cli = NoCommand /\ api = NoRequest
    /\ up = FALSE
    /\ events = 0

-----------------------------------------------------------------------------
(***************************************************************************)
(* Quotas                                                                  *)
(***************************************************************************)

\* The effective quota of CheckQuota's query: the first row there is.
EffectiveQuota(a) ==
    IF userQuota[a] # NoRow THEN userQuota[a]
    ELSE IF domainQuota[DomainOf[a]] # NoRow THEN domainQuota[DomainOf[a]]
    ELSE 0

\* The quota that getUserQuota reports: the first one that is not zero.
ReportedQuota(a) ==
    IF userQuota[a] # NoRow /\ userQuota[a] # 0 THEN userQuota[a]
    ELSE IF domainQuota[DomainOf[a]] # NoRow THEN domainQuota[DomainOf[a]]
    ELSE 0

\* What getDomainQuota reports: the domain's row and what its accounts use.
ReportedDomain(dom) ==
    <<IF domainQuota[dom] # NoRow THEN domainQuota[dom] ELSE 0,
      MapThenSumSet(Used, {a \in accts : DomainOf[a] = dom})>>

\* Mutant: the size of the message is not counted.
CheckQuotaNoSize(a, additional) ==
    a \in accts /\ EffectiveQuota(a) # 0 => Used(a) <= EffectiveQuota(a)

\* CheckQuota: there is room for additional bytes.
CheckQuota(a, additional) ==
    a \in accts /\ EffectiveQuota(a) # 0 =>
        Used(a) + additional <= EffectiveQuota(a)

-----------------------------------------------------------------------------
(***************************************************************************)
(* Deliveries                                                              *)
(***************************************************************************)

\* A step of the server that leaves the database and the pipe alone.
OnlyDelivery(d, new) ==
    /\ up
    /\ dlv' = [dlv EXCEPT ![d] = new]
    /\ UNCHANGED <<dbVars, session, cli, api, up, events, pipeVars>>

Start(d) ==
    /\ up /\ dlv[d].pc = "idle"
    /\ events < MaxEvents /\ events' = events + 1
    /\ dlv' = [dlv EXCEPT ![d].pc = "open"]
    /\ UNCHANGED <<dbVars, session, cli, api, up, pipeVars>>

\* addedRcpts: the accounts that have been accepted.
Added(d) == {a \in Accounts : dlv[d].users[a] > 0}

\* Mutant: an account that another address has brought is added again.
AddRcptAgain(d, r) ==
    LET a == AccountOf[r]
    IN  /\ dlv[d].pc = "open" /\ r \in To[d]
        /\ a \in accts /\ CheckQuota(a, 0) /\ dlv[d].users[a] < 2
        /\ OnlyDelivery(d, [dlv[d] EXCEPT !.users[a] = @ + 1])

\* AddRcpt, when it accepts an account that is new to the delivery.  In all
\* other cases (no such account, quota exceeded, an address of an account that
\* is added, a database error) it changes nothing.
AddRcpt(d, r) ==
    LET a == AccountOf[r]
    IN  /\ dlv[d].pc = "open" /\ r \in To[d]
        /\ a # NoAccount /\ a \notin Added(d)
        /\ a \in accts /\ CheckQuota(a, 0)
        /\ OnlyDelivery(d, [dlv[d] EXCEPT !.users[a] = @ + 1])

Body(d) ==
    /\ dlv[d].pc = "open" /\ Added(d) # {}
    /\ OnlyDelivery(d, [dlv[d] EXCEPT !.pc = "body", !.todo = Added(d)])

\* Body checks the quota of one recipient after the other.
BodyCheckQuota(d, a) ==
    /\ dlv[d].pc = "body" /\ a \in dlv[d].todo
    /\ LET todo == dlv[d].todo \ {a}
       IN  OnlyDelivery(d,
             IF CheckQuota(a, 1)
             THEN [dlv[d] EXCEPT !.todo = todo,
                                 !.pc = IF todo = {} THEN "checked" ELSE @,
                                 !.seen[a] = <<Used(a), EffectiveQuota(a)>>]
             ELSE [dlv[d] EXCEPT !.pc = "failed"])

\* SpecialMailbox or UserMailbox, and BodyParsed: the transaction, which may
\* fail, and does when an account is gone.
BodyStore(d) ==
    /\ dlv[d].pc = "checked"
    /\ \E ok \in BOOLEAN :
         /\ ok => Added(d) \subseteq accts
         /\ OnlyDelivery(d, [dlv[d] EXCEPT !.pc =
                                 IF ok THEN "stored" ELSE "failed"])

\* A delivery that is over.
Over(d, pc) == [NewDelivery EXCEPT !.pc = pc]

\* Mailboxes the copies may go to, as Body has told the library: Junk for all
\* when quarantined, else for each the one that the filters name, or Inbox
\* when they name none, fail or name one that is not there.
Folders(d) ==
    {[a \in Added(d) |-> Junk]}
        \union {f \in [Added(d) -> Boxes] : \A a \in Added(d) : f[a] \in boxes[a]}

\* Commit: everybody's copy appears, and is reported.
Commit(d) ==
    /\ up /\ dlv[d].pc = "stored"
    /\ CanNotify("server", Cardinality(Added(d)))
    /\ \E folder \in Folders(d) :
         /\ copies' = [a \in Accounts |->
                IF a \in Added(d)
                THEN [copies[a] EXCEPT ![folder[a]][d] = @ + dlv[d].users[a]]
                ELSE copies[a]]
         /\ boxes' = [a \in Accounts |->
                IF a \in Added(d) THEN boxes[a] \union {folder[a]}
                ELSE boxes[a]]
         /\ Notify("server", SetToSeq({<<a, folder[a]>> : a \in Added(d)}))
    /\ dlv' = [dlv EXCEPT ![d] = Over(d, "committed")]
    /\ UNCHANGED <<accts, userQuota, domainQuota, creds, dkimKeys, session,
                   cli, api, up, events>>

\* Abort, also when Commit fails.
Abort(d) ==
    /\ dlv[d].pc \in {"open", "checked", "stored", "failed"}
    /\ OnlyDelivery(d, Over(d, "aborted"))

\* The account is part of a transaction that is not finished.
Locked(a) == \E d \in Deliveries : dlv[d].pc = "stored" /\ a \in Added(d)

-----------------------------------------------------------------------------
(***************************************************************************)
(* The IMAP endpoint                                                       *)
(***************************************************************************)

\* Login and openAccount, for a user whose credentials were accepted: an
\* account that is not there is created.
Login(a) ==
    /\ up /\ session.pc = "none" /\ a \in creds
    /\ session' = [session EXCEPT !.pc = "auth", !.a = a]
    /\ accts' = accts \union {a}
    /\ boxes' = [boxes EXCEPT ![a] = @ \union {Inbox}]
    /\ UNCHANGED <<copies, userQuota, domainQuota, creds, dkimKeys, dlv, cli,
                   api, up, events, pipeVars>>

\* SELECT, with the subscription that EnableUpdatePipe has installed.
Select(b) ==
    /\ up /\ session.pc = "auth" /\ b \in boxes[session.a]
    /\ session' = [session EXCEPT !.pc = "selected", !.b = b]
    /\ Subscribe(<<session.a, b>>)
    /\ UNCHANGED <<dbVars, dlv, cli, api, up, events>>

\* The client stores or expunges messages; neither looks at the quota.
ClientChange(m) ==
    /\ up /\ session.pc = "selected" /\ session.b \in boxes[session.a]
    /\ CanNotify("server", 1)
    /\ events < MaxEvents /\ events' = events + 1
    /\ LET a == session.a
           b == session.b
       IN  /\ \/ /\ m = Appended /\ Used(a) < MaxUsed
                 /\ copies' = [copies EXCEPT ![a][b][m] = @ + 1]
              \/ /\ copies[a][b][m] > 0
                 /\ copies' = [copies EXCEPT ![a][b][m] = 0]
           /\ Notify("server", <<<<a, b>>>>)
    /\ UNCHANGED <<accts, boxes, userQuota, domainQuota, creds, dkimKeys, dlv,
                   session, cli, api, up>>

\* LOGOUT, or the connection ends.
Logout ==
    /\ up /\ session.pc # "none"
    /\ IF session.pc = "selected" THEN Unsubscribe(<<session.a, session.b>>)
       ELSE UNCHANGED pipeVars
    /\ session' = [pc |-> "none", a |-> NoAccount, b |-> Inbox]
    /\ UNCHANGED <<dbVars, dlv, cli, api, up, events>>

-----------------------------------------------------------------------------
(***************************************************************************)
(* maddy imap-acct, imap-mboxes and imap-msgs                              *)
(***************************************************************************)

\* openStorage, for a command with its arguments.
CliOpen(cmd, a, b, to) ==
    /\ cli.pc = "idle" /\ events < MaxEvents
    /\ cmd \in {"mboxesRename", "msgsCopy", "msgsMove"} <=> b # to
    /\ cmd \in AcctCmds \union {"mboxesList"} => b = Inbox
    /\ cli' = [pc |-> "open", cmd |-> cmd, a |-> a, b |-> b, to |-> to]
    /\ events' = events + 1
    /\ EnablePush
    /\ UNCHANGED <<dbVars, dlv, session, api, up>>

\* What has to exist for the command to go on.
CliFinds ==
    /\ cli.cmd \notin AcctCmds => cli.a \in accts
    /\ cli.cmd \in MsgsCmds \union {"mboxesRemove"} => cli.b \in boxes[cli.a]

\* GetIMAPAcct, GetMailbox and Status.
CliLookup ==
    /\ cli.pc = "open"
    /\ cli' = [cli EXCEPT !.pc = IF CliFinds THEN "ready" ELSE "closing"]
    /\ UNCHANGED <<dbVars, dlv, session, api, up, events, pipeVars>>

\* The command is not confirmed, has nothing to change, or fails because
\* others were faster.
CliGivesUp ==
    /\ cli.pc = "ready"
    /\ cli' = [cli EXCEPT !.pc = "closing"]
    /\ UNCHANGED <<dbVars, dlv, session, api, up, events, pipeVars>>

\* The command is about to do its work, on an account that is still there.
CliDoes(cmd) == cli.pc = "ready" /\ cli.cmd = cmd /\ cli.a \in accts

\* It changes its account's mailboxes and reports it.
CliChanges(newBoxes, newCopies, ks) ==
    /\ CanNotify("cli", Len(ks))
    /\ cli' = [cli EXCEPT !.pc = "closing"]
    /\ boxes' = [boxes EXCEPT ![cli.a] = newBoxes]
    /\ copies' = [copies EXCEPT ![cli.a] = newCopies]
    /\ Notify("cli", ks)
    /\ UNCHANGED <<accts, userQuota, domainQuota, creds, dkimKeys, dlv,
                   session, api, up, events>>

\* The account's mailboxes and their copies, and the two that are named.
CliBoxes == boxes[cli.a]
CliCopies == copies[cli.a]
CliSource == <<cli.a, cli.b>>
CliTarget == <<cli.a, cli.to>>
None == [m \in Msgs |-> 0]

\* imap-mboxes list, imap-msgs list and imap-msgs dump only print.
MboxesList ==
    /\ CliDoes("mboxesList")
    /\ CliChanges(CliBoxes, CliCopies, <<>>)
MsgsList ==
    /\ CliDoes("msgsList") /\ cli.b \in CliBoxes
    /\ CliChanges(CliBoxes, CliCopies, <<>>)

MboxesCreate ==
    /\ CliDoes("mboxesCreate")
    /\ cli.b \notin CliBoxes
    /\ CliChanges(CliBoxes \union {cli.b}, CliCopies, <<>>)

MboxesRemove ==
    /\ CliDoes("mboxesRemove")
    /\ cli.b \in CliBoxes \ {Inbox}
    /\ CliChanges(CliBoxes \ {cli.b},
                  [CliCopies EXCEPT ![cli.b] = None], <<CliSource>>)

\* (What renaming INBOX does is left to the library, and left out here.)
MboxesRename ==
    /\ CliDoes("mboxesRename")
    /\ cli.b \in CliBoxes \ {Inbox} /\ cli.to \notin CliBoxes
    /\ CliChanges((CliBoxes \ {cli.b}) \union {cli.to},
                  [CliCopies EXCEPT ![cli.to] = CliCopies[cli.b],
                                    ![cli.b] = None], <<>>)

MsgsAdd ==
    /\ CliDoes("msgsAdd")
    /\ cli.b \in CliBoxes /\ Used(cli.a) < MaxUsed
    /\ CliChanges(CliBoxes,
                  [CliCopies EXCEPT ![cli.b][Appended] = @ + 1],
                  <<CliSource>>)

MsgsRemove(m) ==
    /\ CliDoes("msgsRemove")
    /\ cli.b \in CliBoxes /\ CliCopies[cli.b][m] > 0
    /\ CliChanges(CliBoxes, [CliCopies EXCEPT ![cli.b][m] = 0],
                  <<CliSource>>)

MsgsCopy(m) ==
    /\ CliDoes("msgsCopy")
    /\ {cli.b, cli.to} \subseteq CliBoxes
    /\ CliCopies[cli.b][m] > 0 /\ Used(cli.a) < MaxUsed
    /\ CliChanges(CliBoxes,
                  [CliCopies EXCEPT ![cli.to][m] = @ + CliCopies[cli.b][m]],
                  <<CliTarget>>)

MsgsMove(m) ==
    /\ CliDoes("msgsMove")
    /\ {cli.b, cli.to} \subseteq CliBoxes /\ CliCopies[cli.b][m] > 0
    /\ CliChanges(CliBoxes,
                  [CliCopies EXCEPT ![cli.to][m] = @ + CliCopies[cli.b][m],
                                    ![cli.b][m] = 0],
                  <<CliTarget, CliSource>>)

MsgsFlags ==
    /\ CliDoes("msgsFlags")
    /\ cli.b \in CliBoxes
    /\ CliChanges(CliBoxes, CliCopies, <<CliSource>>)

\* CreateIMAPAcct of go-imap-sql, with mailboxes that are made right after.
CreateAccount(a, more) ==
    /\ a \notin accts
    /\ accts' = accts \union {a}
    /\ boxes' = [boxes EXCEPT ![a] = {Inbox} \union more]
    /\ UNCHANGED <<copies, userQuota, domainQuota, creds, dkimKeys>>

\* DeleteIMAPAcct: waits for a transaction that uses the account.  The row of
\* its quota stays.
DeleteAccount(a) ==
    /\ a \in accts /\ ~Locked(a)
    /\ accts' = accts \ {a}
    /\ boxes' = [boxes EXCEPT ![a] = {}]
    /\ copies' = [copies EXCEPT ![a] = Empty]
    /\ UNCHANGED <<userQuota, domainQuota, creds, dkimKeys>>

\* Any of the special mailboxes may fail to be made, which is only printed.
ImapAcctCreate ==
    /\ cli.pc = "ready" /\ cli.cmd = "imapAcctCreate"
    /\ \E more \in SUBSET Boxes : CreateAccount(cli.a, more)
    /\ cli' = [cli EXCEPT !.pc = "closing"]
    /\ UNCHANGED <<dlv, session, api, up, events, pipeVars>>

ImapAcctRemove ==
    /\ cli.pc = "ready" /\ cli.cmd = "imapAcctRemove"
    /\ DeleteAccount(cli.a)
    /\ cli' = [cli EXCEPT !.pc = "closing"]
    /\ UNCHANGED <<dlv, session, api, up, events, pipeVars>>

\* closeIfNeeded: Storage.Close waits for the updates to be sent.
CliClose ==
    /\ cli.pc = "closing" /\ Flushed("cli")
    /\ cli' = NoCommand
    /\ PushEnds
    /\ UNCHANGED <<dbVars, dlv, session, api, up, events>>

-----------------------------------------------------------------------------
(***************************************************************************)
(* The REST API                                                            *)
(***************************************************************************)

\* The API that calls this one writes and deletes the credentials.
Credential(a) ==
    /\ creds' = IF a \in creds THEN creds \ {a} ELSE creds \union {a}
    /\ api.pc \in {"idle", "ok", "failed"}
    /\ events < MaxEvents /\ events' = events + 1
    /\ UNCHANGED <<accts, boxes, copies, userQuota, domainQuota, dkimKeys,
                   dlv, session, cli, api, up, pipeVars>>

ApiGoes(pc) ==
    /\ api' = [api EXCEPT !.pc = pc]
    /\ UNCHANGED <<dlv, session, cli, up, events, pipeVars>>

\* userList, as userCreate uses it: somebody of the domain has a password.
DomainKnown(a) == \E u \in creds : DomainOf[u] = DomainOf[a]

\* A request arrives.  setUserQuota looks whether the account exists;
\* setDomainQuota and the two that report need nothing else.
ApiCall(op, a, q, mailboxes) ==
    /\ up /\ api.pc \in {"idle", "ok", "failed"}
    /\ events < MaxEvents
    /\ op \notin {"setUserQuota", "setDomainQuota"} => q = 0
    /\ op \notin {"createUser", "deleteUser"} => ~mailboxes
    /\ events' = events + 1
    /\ api' = [op |-> op, a |-> a, q |-> q, boxes |-> mailboxes,
               found |-> DomainKnown(a),
               pc |-> CASE op = "createUser" -> "listed"
                        [] op \in {"createImapAccount", "deleteUser"} ->
                              "account"
                        [] op = "setUserQuota" ->
                              IF a \in accts THEN "exists" ELSE "failed"
                        [] op = "getUserQuota" ->
                              IF a \in accts THEN "ok" ELSE "failed"
                        [] op \in {"setDomainQuota", "getDomainQuota"} ->
                              "ok",
               report |-> CASE op = "getUserQuota" /\ a \in accts ->
                                  <<ReportedQuota(a), Used(a)>>
                            [] op = "getDomainQuota" ->
                                  ReportedDomain(DomainOf[a])
                            [] OTHER -> <<0, 0>>]
    /\ domainQuota' = IF op = "setDomainQuota"
                      THEN [domainQuota EXCEPT ![DomainOf[a]] = q]
                      ELSE domainQuota
    /\ UNCHANGED <<accts, boxes, copies, userQuota, creds, dkimKeys, dlv,
                   session, cli, up, pipeVars>>

\* userCreate: a signing key for a domain that has no user yet.
ApiAddKey ==
    /\ api.pc = "listed"
    /\ \/ /\ dkimKeys' = IF api.found THEN dkimKeys
                         ELSE dkimKeys \union {DomainOf[api.a]}
          /\ ApiGoes(IF api.boxes THEN "account" ELSE "ok")
       \/ ~api.found /\ UNCHANGED dkimKeys /\ ApiGoes("failed")
    /\ UNCHANGED <<accts, boxes, copies, userQuota, domainQuota, creds>>

\* imapAcctCreate: the account ...
ApiCreateAccount ==
    /\ api.pc = "account" /\ api.op \in {"createUser", "createImapAccount"}
    /\ \/ CreateAccount(api.a, {}) /\ ApiGoes("mailboxes")
       \/ api.a \in accts /\ UNCHANGED dbVars /\ ApiGoes("failed")

\* ... and its special mailboxes, unless the account is gone again.
ApiCreateMailboxes ==
    /\ api.pc = "mailboxes"
    /\ \/ /\ api.a \in accts
          /\ \E more \in SUBSET Named :
                boxes' = [boxes EXCEPT ![api.a] = @ \union more]
          /\ ApiGoes("ok")
       \/ /\ api.a \notin accts /\ UNCHANGED boxes
          /\ ApiGoes("failed")
    /\ UNCHANGED <<accts, copies, userQuota, domainQuota, creds, dkimKeys>>

\* userDelete, which may keep the account, and deleteImapAccount.
ApiDelete ==
    /\ api.pc = "account" /\ api.op = "deleteUser"
    /\ \/ ~api.boxes /\ UNCHANGED dbVars /\ ApiGoes("ok")
       \/ api.boxes /\ DeleteAccount(api.a) /\ ApiGoes("ok")
       \/ /\ api.boxes /\ api.a \notin accts /\ UNCHANGED dbVars
          /\ ApiGoes("failed")

\* setUserQuota: the row is written, also if the account is gone by now.
ApiSetUserQuota ==
    /\ api.pc = "exists"
    /\ userQuota' = [userQuota EXCEPT ![api.a] = api.q]
    /\ ApiGoes("ok")
    /\ UNCHANGED <<accts, boxes, copies, domainQuota, creds, dkimKeys>>

-----------------------------------------------------------------------------
(***************************************************************************)
(* The server process                                                      *)
(***************************************************************************)

\* The IMAP endpoint's Init, which only logs that the pipe could not be
\* enabled.
ServerStart ==
    /\ ~up /\ up' = TRUE
    /\ EnableReplicate
    /\ UNCHANGED <<dbVars, dlv, session, cli, api, events>>

\* The process ends, in an orderly way or by a crash.  Transactions that are
\* not committed are rolled back.
ServerStop(orderly) ==
    /\ up /\ events < MaxEvents
    /\ orderly => Flushed("server")
    /\ up' = FALSE
    /\ ServerEnds(orderly)
    /\ dlv' = [d \in Deliveries |->
                  IF dlv[d].pc \in {"idle", "committed"} THEN dlv[d]
                  ELSE Over(d, "aborted")]
    /\ session' = [pc |-> "none", a |-> NoAccount, b |-> Inbox]
    /\ api' = NoRequest
    /\ events' = events + 1
    /\ UNCHANGED <<dbVars, cli>>

\* The goroutines of the pipe.
PipeGoes(p) == PipeStep(p) /\ UNCHANGED <<dbVars, procVars>>
PipeApplies == Apply /\ UNCHANGED <<dbVars, procVars>>
PipeReconnects == Reconnect /\ UNCHANGED <<dbVars, procVars>>

-----------------------------------------------------------------------------
DeliveryNext(d) ==
    \/ Start(d) \/ Body(d) \/ BodyStore(d) \/ Commit(d) \/ Abort(d)
    \/ \E r \in Rcpts : AddRcpt(d, r)
    \/ \E a \in Accounts : BodyCheckQuota(d, a)

CliNext ==
    \/ \E cmd \in CliCmds, a \in Managed, b, to \in Boxes :
          CliOpen(cmd, a, b, to)
    \/ CliLookup \/ CliGivesUp \/ CliClose
    \/ MboxesList \/ MboxesCreate \/ MboxesRemove \/ MboxesRename
    \/ MsgsList \/ MsgsAdd \/ MsgsFlags
    \/ \E m \in Msgs : MsgsRemove(m) \/ MsgsCopy(m) \/ MsgsMove(m)
    \/ ImapAcctCreate \/ ImapAcctRemove

ApiNext ==
    \/ \E op \in ApiOps, a \in Managed, q \in Quotas \union {0},
          mailboxes \in BOOLEAN : ApiCall(op, a, q, mailboxes)
    \/ ApiAddKey \/ ApiCreateAccount \/ ApiCreateMailboxes \/ ApiDelete
    \/ ApiSetUserQuota
    \/ \E a \in Managed : Credential(a)

ImapNext ==
    \/ \E a \in Accounts : Login(a)
    \/ \E b \in Boxes : Select(b)
    \/ \E m \in Msgs : ClientChange(m)
    \/ Logout

Next ==
    \/ \E d \in Deliveries : DeliveryNext(d)
    \/ ImapNext \/ CliNext \/ ApiNext
    \/ ServerStart \/ \E orderly \in BOOLEAN : ServerStop(orderly)
    \/ \E p \in Procs : PipeGoes(p)
    \/ PipeApplies \/ PipeReconnects

\* The goroutines of the pipe run when they can.
Fairness ==
    /\ \A p \in Procs : WF_vars(PipeGoes(p))
    /\ WF_vars(PipeApplies)

Spec == Init /\ [][Next]_vars /\ Fairness

-----------------------------------------------------------------------------
(***************************************************************************)
(* Properties                                                              *)
(***************************************************************************)

\* The step in which a delivery takes effect.
Commits(d) == dlv[d].pc # "committed" /\ dlv'[d].pc = "committed"

\* The step adds one copy of the delivery's message to the account, and
\* leaves all else in it alone.
GainsOne(a, d) ==
    \E b \in Boxes : copies'[a] = [copies[a] EXCEPT ![b][d] = @ + 1]

\* A message reaches each account that AddRcpt accepted once, all of them in
\* one step, however many addresses lead to the account and whatever became
\* of the mailboxes since; and before that step nobody has a copy.
OneCopyEach ==
    [][\A d \in Deliveries :
          /\ Commits(d) => \A a \in Accounts :
                IF a \in Added(d) THEN GainsOne(a, d)
                                 ELSE copies'[a] = copies[a]
          /\ dlv'[d].pc # "committed" => \A a \in Accounts, b \in Boxes :
                copies'[a][b][d] = 0]_vars

\* A delivery takes an account above its quota only if the account or its
\* quota has changed since Body checked it: CheckQuota and Commit are not one
\* transaction, but otherwise they keep the bound.
QuotaOnlyRaced ==
    [][\A d \in Deliveries : Commits(d) =>
          \A a \in Added(d) :
             EffectiveQuota(a) # 0 /\ UsedNext(a) > EffectiveQuota(a) =>
                dlv[d].seen[a] # <<Used(a), EffectiveQuota(a)>>]_vars
=============================================================================
