---------------------------- MODULE CustomerView ----------------------------
(***************************************************************************)
(* One customer's view, read through three layers (ADR-0030): the          *)
(* transactions API over BigQuery and its optional Bigtable copy           *)
(* (src/products/transactions/api), the loan API's list, the process API   *)
(* that composes the two and decides the next action                       *)
(* (src/products/process/api), and the channels: the mobile API, the MCP   *)
(* server, with a process service or with its module loaded in-process,    *)
(* the banking agent's tools, and the deep health check.                   *)
(*                                                                         *)
(* One account.  Every read may fail; a read is one action, and the bank   *)
(* moves between two reads.  lost, strayed and moved are histories of the  *)
(* request: the sources that did not answer it, that one of them said 404  *)
(* of something else than the account (a service that is not deployed, or  *)
(* a revision without the route), and that the bank moved under it.        *)
(*                                                                         *)
(* Left out: amounts, currencies, the pages' layout, the id tokens (a call *)
(* without one fails like any other), the demo repositories, which hold    *)
(* their answers in memory, and a masked balance: the API's account reads  *)
(* the column (infra/envs/prod/main.tf, financial_reader_members), so no   *)
(* balance is NULL on this path and decide_next_action's case of one is    *)
(* not reached.                                                            *)
(***************************************************************************)
EXTENDS Naturals

CONSTANTS MaxRows,    \* bound: posted transactions of the account
          MaxMoves    \* bound: changes of the bank during a run

ASSUME ViewAssumption == MaxRows \in Nat /\ MaxMoves \in Nat

VARIABLES
    hotPath,   \* whether BIGTABLE_INSTANCE is set
    bank,      \* the account in BigQuery, and its loan
    hot,       \* its copy in Bigtable
    view,      \* the request
    moves

viewVars == <<hotPath, bank, hot, view, moves>>

Balances == {"negative", "positive", "absent"}
Loans == {"none", "pending", "decided"}
Sections == {"recent_activity", "loans"}
\* Composed by the process service, or by the same module inside the MCP
\* server; the agent reads the balance alone.
Composed == {"mobile", "mcp", "deep"}
Channels == Composed \cup {"inline", "agent"}
Actions == {"await_loan_decision", "review_loan_decision", "cover_overdraft",
            "none"}
Outcomes == {"served", "not_found", "unavailable", "error"}

NoView == [channel |-> "mobile", step |-> "idle", balance |-> "absent",
           rows |-> 0, partial |-> {}, action |-> "none", lost |-> {},
           strayed |-> FALSE, moved |-> FALSE]

Banks == [balance : Balances, rows : 0 .. MaxRows, loan : Loans,
          crowded : BOOLEAN]
HotCopies == [balance : Balances, rows : 0 .. MaxRows]
ViewSteps == {"idle", "sample", "balance", "recent", "loans", "hop"}
               \cup Outcomes
Views == [channel : Channels, step : ViewSteps, balance : Balances,
          rows : 0 .. MaxRows, partial : SUBSET Sections, action : Actions,
          lost : SUBSET (Sections \cup {"balance"}), strayed : BOOLEAN,
          moved : BOOLEAN]

ViewTypeOK ==
    /\ hotPath \in BOOLEAN
    /\ bank \in Banks
    /\ hot \in HotCopies
    /\ view \in Views
    /\ moves \in 0 .. MaxMoves

ViewInit ==
    /\ hotPath \in BOOLEAN
    /\ bank = [balance |-> "absent", rows |-> 0, loan |-> "none",
               crowded |-> FALSE]
    /\ hot = [balance |-> "absent", rows |-> 0]
    /\ view = NoView
    /\ moves = 0

(***************************************************************************)
(* The bank, and the copy                                                  *)
(***************************************************************************)
Move(changed) ==
    /\ moves < MaxMoves
    /\ moves' = moves + 1
    /\ bank' = changed
    /\ view' = [view EXCEPT !.moved = TRUE]
    /\ UNCHANGED <<hotPath, hot>>

\* A transaction is posted: the balance may change sign.
Post ==
    /\ bank.rows < MaxRows
    /\ \E balance \in Balances \ {"absent"} :
          Move([bank EXCEPT !.balance = balance, !.rows = @ + 1])

LoanMoves == \E loan \in Loans : Move([bank EXCEPT !.loan = loan])

\* Two hundred newer loans are submitted for other accounts.
LoansCrowd == ~bank.crowded /\ Move([bank EXCEPT !.crowded = TRUE])

\* The backfill copies the transactions, then the balances, if it can.
BackfillRows ==
    /\ hotPath
    /\ hot' = [hot EXCEPT !.rows = bank.rows]
    /\ UNCHANGED <<hotPath, bank, view, moves>>

BackfillBalance ==
    /\ hotPath
    /\ hot' = [hot EXCEPT !.balance = bank.balance]
    /\ UNCHANGED <<hotPath, bank, view, moves>>

\* Thirty days on, the oldest rows of the copy are gone.
HotRowsExpire ==
    /\ hot.rows > 0
    /\ hot' = [hot EXCEPT !.rows = @ - 1]
    /\ UNCHANGED <<hotPath, bank, view, moves>>

(***************************************************************************)
(* The transactions API: the copy first, BigQuery where it has nothing     *)
(* or fails.  Both answers may be had of a copy that holds the account.    *)
(***************************************************************************)
HotBalance == IF hotPath /\ hot.balance # "absent" THEN {hot.balance} ELSE {}
ColdBalance == bank.balance
TxnBalance == {ColdBalance} \cup HotBalance

HotRows == IF hotPath /\ hot.rows > 0 THEN {hot.rows} ELSE {}
ColdRows == bank.rows
TxnRows == {ColdRows} \cup HotRows

(***************************************************************************)
(* The view                                                                *)
(***************************************************************************)
Stands(step) == view.step = step
Ending(step) == view' = [view EXCEPT !.step = step]

Ask(channel) ==
    /\ view.step \in Outcomes \cup {"idle"}
    /\ view' = [NoView EXCEPT
                  !.channel = channel,
                  !.step = IF channel = "deep" THEN "sample" ELSE "balance"]
    /\ UNCHANGED <<hotPath, bank, hot, moves>>

\* The deep check takes an account that has activity.
SampleAccount ==
    /\ Stands("sample")
    /\ \/ bank.balance # "absent" /\ Ending("balance")
       \/ Ending("unavailable")
    /\ UNCHANGED <<hotPath, bank, hot, moves>>

\* A 404 is taken for the answer that there is no such account; what else
\* fails is not an answer.  The deep check does not catch a 404, and
\* in-process the two raise alike and the tool returns an error.
After404 == IF view.channel \in {"inline", "deep"} THEN "error"
            ELSE "not_found"
AfterFailure == IF view.channel = "inline" THEN "error" ELSE "unavailable"

\* The balance read is found, not there, or not had; and it is not had where
\* a 404 is not the account's.
Finds(next) ==
    /\ Stands("balance")
    /\ \/ \E balance \in TxnBalance :
             view' = [view EXCEPT
                        !.balance = balance,
                        !.step = IF balance = "absent" THEN After404 ELSE next]
       \/ \E strayed \in BOOLEAN :
             view' = [view EXCEPT
                        !.lost = @ \cup {"balance"}, !.strayed = strayed,
                        !.step = IF strayed THEN After404 ELSE AfterFailure]
    /\ UNCHANGED <<hotPath, bank, hot, moves>>

ReadBalance == view.channel # "agent" /\ Finds("recent")

\* get_account_balance of the agent: its demo data is not in its image, so an
\* outage cannot be answered with it.
AgentBalance == view.channel = "agent" /\ Finds("served")

\* Mutation: a read that fails is one that found nothing.
Unnamed(section) == {}

\* The section is named.  In-process, the adapter takes an outage of the
\* activity for an account without any.
Named(section) ==
    IF view.channel = "inline" /\ section = "recent_activity" THEN {}
    ELSE {section}

Misses(section) ==
    [view EXCEPT !.lost = @ \cup {section}, !.partial = @ \cup Named(section)]

\* The section is missing for a 404, which names it nowhere.
Strays(section) ==
    [view EXCEPT !.lost = @ \cup {section}, !.strayed = TRUE]

\* A 404 is an account without transactions, whatever it was said of.
ReadRecent ==
    /\ Stands("recent")
    /\ \/ \E rows \in TxnRows :
             view' = [view EXCEPT !.rows = rows, !.step = "loans"]
       \/ view' = [Misses("recent_activity") EXCEPT !.step = "loans"]
       \/ view' = [Strays("recent_activity") EXCEPT !.step = "loans"]
    /\ UNCHANGED <<hotPath, bank, hot, moves>>

\* Mutation: the overdraft first, as the more severe.
OverdraftFirst(balance, loan) ==
    CASE balance = "negative" -> "cover_overdraft"
      [] balance # "negative" /\ loan = "pending" -> "await_loan_decision"
      [] balance # "negative" /\ loan = "decided" -> "review_loan_decision"
      [] OTHER -> "none"

\* decide_next_action
NextAction(balance, loan) ==
    CASE loan = "pending" -> "await_loan_decision"
      [] loan = "decided" -> "review_loan_decision"
      [] loan = "none" /\ balance = "negative" -> "cover_overdraft"
      [] OTHER -> "none"

\* The loan API selects by account; in-process its list, which ends at two
\* hundred, is filtered here.
ListedLoan ==
    IF view.channel = "inline" /\ bank.crowded THEN "none" ELSE bank.loan

Decides(seen, loan) ==
    [seen EXCEPT !.action = NextAction(seen.balance, loan), !.step = "hop"]

\* A 404 of the loan API is no SourceUnavailable: build_overview does not
\* catch it, and the request ends as if the account were not there.  In-process
\* it is a source that is unavailable.
ReadLoans ==
    /\ Stands("loans")
    /\ \/ view' = Decides(view, ListedLoan)
       \/ view' = Decides(Misses("loans"), "none")
       \/ /\ view.channel # "inline"
          /\ view' = [Strays("loans") EXCEPT !.step = After404]
    /\ UNCHANGED <<hotPath, bank, hot, moves>>

\* What the process API answers with: 503 to the deep check, if degraded.
Status(v) ==
    IF v.channel = "deep" /\ v.partial # {} THEN "unavailable" ELSE "served"

\* The answer reaches the channel, or the channel gives up on it.
Hop ==
    /\ Stands("hop")
    /\ \/ Ending(Status(view))
       \/ view.channel \in Composed /\ Ending("unavailable")
       \/ /\ view.channel \in Composed \ {"deep"}
          /\ view' = [view EXCEPT !.step = "not_found", !.strayed = TRUE]
    /\ UNCHANGED <<hotPath, bank, hot, moves>>

ViewNext ==
    \/ Post \/ LoanMoves \/ LoansCrowd
    \/ BackfillRows \/ BackfillBalance \/ HotRowsExpire
    \/ \E channel \in Channels : Ask(channel)
    \/ SampleAccount \/ ReadBalance \/ AgentBalance
    \/ ReadRecent \/ ReadLoans \/ Hop

ViewSpec == ViewInit /\ [][ViewNext]_viewVars

(***************************************************************************)
(* Properties                                                              *)
(***************************************************************************)
(* "An unreachable source is named in partial": no outage is shown as an   *)
(* empty section, as an account that does not exist or as health.  There   *)
(* are two exceptions.  In the MCP server's in-process view recent         *)
(* activity that could not be read is an account without any.  And a 404   *)
(* that a service answers about itself is taken for one about the account: *)
(* its activity is empty, or it does not exist.                            *)
OutagesAreTold ==
    LET silently == IF view.channel = "inline" \/ view.strayed
                    THEN {"recent_activity"} ELSE {}
    IN /\ view.step = "served" =>
             /\ "balance" \notin view.lost
             /\ view.lost \subseteq view.partial \cup silently
             /\ view.channel = "deep" => view.lost \subseteq silently
       /\ view.step = "not_found" =>
             bank.balance = "absent" \/ view.moved \/ view.strayed

(* The one rule two channels share gives each of them the action the bank  *)
(* would: a loan under decision before an overdraft, both before nothing.  *)
(* It differs only if the bank moved meanwhile, if the loans are named as  *)
(* missing, if the balance shown is the copy's and no longer the bank's,   *)
(* or, in-process, if the account's loan is not among the newest listed.   *)
AdviceFollowsTheBank ==
    view.step = "served" /\ view.channel # "agent" /\ ~view.moved =>
        \/ view.action =
              IF bank.loan = "pending" THEN "await_loan_decision"
              ELSE IF bank.loan = "decided" THEN "review_loan_decision"
              ELSE IF bank.balance = "negative" THEN "cover_overdraft"
              ELSE "none"
        \/ "loans" \in view.partial
        \/ hotPath /\ view.balance # bank.balance
        \/ view.channel = "inline" /\ bank.crowded
=============================================================================
