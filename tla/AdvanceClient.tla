---------------------------- MODULE AdvanceClient ----------------------------
(***************************************************************************)
(* One user's advances and buybacks, from the market page of apps/dapp-prod*)
(* (markets/[market]/page.tsx) through api() and the /api/bridge proxy to  *)
(* the advance desk, whose quotes are those of QuoteLifecycle (Quotes shows*)
(* that attn_api implements it), and to the chain, where PT/YT are minted  *)
(* and YT or USDC is transferred to the LP.                                *)
(*                                                                         *)
(* A confirmed quote is an async function that survives its page: the user *)
(* may leave and come back (a new mount of the page), reload, switch the   *)
(* data mode or the wallet's account while it posts, retries or waits for  *)
(* the chain.  Sizes, prices and texts are left out; a quote is its id, and*)
(* the two sides of the page are the two sides of a quote.  A demo quote,  *)
(* which the page keeps when the mode changes, is DemoQuote.               *)
(***************************************************************************)
EXTENDS Integers, Sequences, FiniteSets, TLC

CONSTANTS Ids,       \* the quotes the desk may offer: <<side, number>>
          DemoQuote, \* the quote of the demo, which the desk does not know
          None,
          Wallets,   \* the accounts of the user's wallet
          Admin,     \* the account with both roles of the market
          maxRetries,\* api()'s option
          MaxMounts, \* bound: visits of the page
          MaxActs    \* bound: what the user does

Sides == {"sell", "buyback"}

ASSUME AdvanceAssumption ==
  /\ \A id \in Ids : id[1] \in Sides
  /\ DemoQuote \notin Ids /\ None \notin Ids \cup Wallets \cup {DemoQuote}
  /\ Admin \in Wallets
  /\ maxRetries \in Nat /\ MaxMounts \in Nat \ {0} /\ MaxActs \in Nat

VARIABLES status, executions, \* the desk: QuoteLifecycle
          owner,    \* per quote, the wallet it was executed for
          strays,   \* posts the client gave up on, which the proxy may still forward
          open,     \* whether governance lets advances run
          chain,    \* the market, what each quote minted, and who paid the LP for it
          wallet,   \* the adapter's account
          live,     \* the data mode
          page,     \* the mounted page
          jobs,     \* runAdvance and runBuyback under way
          told,     \* quotes whose failure the page showed
          left,     \* quotes whose page was gone when their job ended
          unheard,  \* quotes that failed behind the loading screen, not shown since
          switched, \* quotes whose job was under way when the data mode changed
          acts
desk == <<status, executions, owner, strays>>
\* What became of the jobs: history, which no step depends on.
fates == <<told, left, unheard, switched>>
vars == <<status, executions, owner, strays, open, chain, wallet, live, page, jobs,
          told, left, unheard, switched, acts>>
Quote == INSTANCE QuoteLifecycle

Accounts == Wallets \cup {None}
NoDetail == [source |-> "none", allowed |-> FALSE, empty |-> FALSE]
\* DemoDataProvider's market and governance: enabled, not paused, with a supply.
DemoDetail == [source |-> "demo", allowed |-> TRUE, empty |-> FALSE]
\* What the page keeps of the service's market and governance.
advancePolicy(enabled, unminted) == [source |-> "live", allowed |-> enabled, empty |-> unminted]
Supply == \E id \in Ids : chain.minted[id] > 0

Fresh(n) == [mount |-> n, loading |-> TRUE, error |-> FALSE, detail |-> NoDetail,
             quote |-> [s \in Sides |-> None], trade |-> [s \in Sides |-> None],
             quoting |-> [s \in Sides |-> FALSE], busy |-> [s \in Sides |-> FALSE],
             closing |-> FALSE, waiting |-> None]
\* The load effect: the demo's data is there at once, the service's is awaited behind
\* the loading screen; what `error` held, shown or still waiting for it, is gone.
LoadEffect(p, toLive) ==
  LET q == [p EXCEPT !.loading = toLive, !.error = FALSE, !.waiting = None]
  IN  IF toLive THEN q ELSE [q EXCEPT !.detail = DemoDetail]
Forms == ~page.loading /\ ~page.error /\ page.detail # NoDetail

\* The page's sections, each by its buttons that can be pressed.
Pressable(s) == (IF page.quoting[s] THEN {} ELSE {"quote"})
                  \cup (IF page.quote[s] = None \/ page.busy[s] THEN {} ELSE {"confirm"})
SellSection == IF Forms THEN Pressable("sell") ELSE {}
BuybackSection == IF Forms THEN Pressable("buyback") ELSE {}
\* The market has no supply left, and the wallet both roles.
canCloseMarket == live /\ page.detail.source = "live" /\ page.detail.empty /\ wallet = Admin
CloseSection == IF Forms /\ canCloseMarket /\ ~page.closing THEN {"close"} ELSE {}

AdvanceInit ==
  /\ Quote!LifecycleInit
  /\ owner = [id \in Ids |-> None] /\ strays = {}
  /\ open \in BOOLEAN
  /\ chain = [market |-> "open", minted |-> [id \in Ids |-> 0], paid |-> [id \in Ids |-> <<>>]]
  /\ wallet \in Accounts /\ live \in BOOLEAN
  /\ page = LoadEffect(Fresh(1), live)
  /\ jobs = {} /\ acts = 0
  /\ told = {} /\ left = {} /\ unheard = {} /\ switched = {}

Deals(js) == {j.id : j \in js} \cap Ids
\* What a job that waits for an answer has on the wire.
Posted(j) == IF j.phase = "post" /\ j.id \in Ids THEN {<<j.id, j.wallet>>} ELSE {}

Act == acts < MaxActs /\ acts' = acts + 1
-----------------------------------------------------------------------------
(* The page's data, the mode and the account. *)

\* A demo load ends with the step that starts it; a load whose mode was switched
\* in the meantime is aborted and says nothing.  The data leaves `error` as it is, so
\* that a job's failure that waited is shown now; a failing load writes over it.
Loads ==
  /\ page.loading
  /\ \/ /\ page' = [page EXCEPT !.loading = FALSE, !.waiting = None,
                                !.detail = advancePolicy(open, ~Supply)]
        /\ told' = told \cup ({page.waiting} \cap Ids)
        /\ unheard' = unheard \ {page.waiting}
     \/ /\ page' = [page EXCEPT !.loading = FALSE, !.waiting = None, !.error = TRUE]
        /\ UNCHANGED <<told, unheard>>
  /\ UNCHANGED <<desk, open, chain, wallet, live, jobs, left, switched, acts>>

\* The header stays on every screen of the page.
SwitchMode == /\ Act
              /\ live' = ~live
              /\ page' = LoadEffect(page, ~live)
              /\ switched' = switched \cup Deals(jobs)
              /\ UNCHANGED <<desk, open, chain, wallet, jobs, told, left, unheard>>

SwitchAccount == /\ Act
                 /\ \E w \in Accounts \ {wallet} : wallet' = w
                 /\ UNCHANGED <<desk, open, chain, live, page, jobs, fates>>

\* Another page and back: the jobs go on, and what they set is nobody's.
Return == /\ Act /\ page.mount < MaxMounts
          /\ page' = LoadEffect(Fresh(page.mount + 1), live)
          /\ UNCHANGED <<desk, open, chain, wallet, live, jobs, fates>>

\* A reload ends the jobs; what they had posted may still arrive.
Reload == /\ Act /\ page.mount < MaxMounts
          /\ page' = LoadEffect(Fresh(page.mount + 1), live)
          /\ jobs' = {}
          /\ left' = left \cup Deals(jobs)
          /\ strays' = strays \cup UNION {Posted(j) : j \in jobs}
          /\ UNCHANGED <<status, executions, owner, open, chain, wallet, live, told,
                         unheard, switched>>

-----------------------------------------------------------------------------
(* Quotes. *)

\* (mutant: the market is loaded again with the quote)
asksReloading(s) ==
  /\ Act
  /\ page' = IF live THEN [page EXCEPT !.quoting[s] = TRUE, !.error = FALSE, !.loading = TRUE]
             ELSE [page EXCEPT !.quote[s] = DemoQuote, !.trade[s] = None, !.error = FALSE]
  /\ UNCHANGED <<desk, open, chain, wallet, live, jobs, fates>>
asks(s) ==
  /\ Act
  /\ page' = IF live THEN [page EXCEPT !.quoting[s] = TRUE, !.error = FALSE]
             ELSE [page EXCEPT !.quote[s] = DemoQuote, !.trade[s] = None, !.error = FALSE]
  /\ UNCHANGED <<desk, open, chain, wallet, live, jobs, fates>>

getQuote == "quote" \in SellSection /\ asks("sell")
getBuyQuote == "quote" \in BuybackSection /\ asks("buyback")

\* The desk answers with the quote it offers, or offers a new one; an answer of the
\* live service is shown in whatever mode the page is by then.
Quoted(s) ==
  /\ page.quoting[s]
  /\ \/ \E id \in Ids :
          /\ id[1] = s
          /\ \/ status[id] = "offered" /\ UNCHANGED desk
             \/ /\ ~ \E other \in Ids : other[1] = s /\ status[other] = "offered"
                /\ Quote!Refresh({}, {id}) /\ UNCHANGED <<owner, strays>>
          /\ page' = [page EXCEPT !.quoting[s] = FALSE, !.quote[s] = id, !.trade[s] = None]
     \/ /\ page' = [page EXCEPT !.quoting[s] = FALSE, !.error = TRUE, !.waiting = None]
        /\ UNCHANGED desk
  /\ UNCHANGED <<open, chain, wallet, live, jobs, fates, acts>>

-----------------------------------------------------------------------------
(* runAdvance and runBuyback: post, then the chain; any failure ends the job. *)

canExecuteAdvance == live /\ page.detail.allowed /\ wallet # None

\* The wallet, the quote and the market are those of the click.
Confirm(s) ==
  /\ Act
  /\ IF canExecuteAdvance
     THEN /\ page' = [page EXCEPT !.busy[s] = TRUE]
          /\ jobs' = jobs \cup {[side |-> s, mount |-> page.mount, id |-> page.quote[s],
                                 wallet |-> wallet, phase |-> "post", attempt |-> 0]}
     ELSE page' = [page EXCEPT !.error = TRUE] /\ UNCHANGED jobs
  /\ UNCHANGED <<desk, open, chain, wallet, live, fates>>

runAdvance == "confirm" \in SellSection /\ Confirm("sell")
runBuyback == "confirm" \in BuybackSection /\ Confirm("buyback")

Mine(j) == j.mount = page.mount
Goes(j, phase) == jobs' = (jobs \ {j}) \cup {[j EXCEPT !.phase = phase]}

\* The catch and the finally of a job.  While the page is loading, what they set is behind
\* the loading screen.
\* (mutant: the failure is logged and not shown)
FailsQuietly(j) ==
  /\ jobs' = jobs \ {j}
  /\ page' = IF Mine(j) THEN [page EXCEPT !.busy[j.side] = FALSE] ELSE page
  /\ left' = IF Mine(j) THEN left ELSE left \cup Deals({j})
  /\ UNCHANGED <<told, unheard, switched>>
Fails(j) ==
  /\ jobs' = jobs \ {j}
  /\ page' = IF Mine(j) THEN [page EXCEPT !.busy[j.side] = FALSE, !.error = TRUE,
                                          !.waiting = IF page.loading THEN j.id ELSE None]
             ELSE page
  /\ left' = IF Mine(j) THEN left ELSE left \cup Deals({j})
  /\ told' = IF Mine(j) /\ ~page.loading THEN told \cup Deals({j}) ELSE told
  /\ unheard' = IF Mine(j) /\ page.loading THEN unheard \cup Deals({j}) ELSE unheard
  /\ UNCHANGED switched

\* The desk executes an offered quote once, for the wallet the post names.
Execute(id, w) == /\ id \in Ids
                  /\ Quote!Execute(id)
                  /\ owner' = [owner EXCEPT ![id] = w]

\* A post that is answered with the trade.
Traded(j, phase) ==
  /\ j.phase = "post"
  /\ Execute(j.id, j.wallet)
  /\ Goes(j, phase)
  /\ UNCHANGED <<strays, open, chain, wallet, live, page, fates, acts>>

postSellYt(j) == j.side = "sell" /\ Traded(j, "mint")
postBuybackYt(j) == j.side = "buyback" /\ Traded(j, "pay")

\* api() ends an attempt without an answer of use: refused (a client error is caught
\* by the same catch as a network error), executed with the answer lost, or given up
\* on while the proxy may still forward it.  The last attempt is the job's failure.
\* (mutant: the attempts are not counted)
AttemptFailsUncounted(j) ==
  /\ j.phase = "post"
  /\ UNCHANGED <<desk, page, fates>>
  /\ jobs' = (jobs \ {j}) \cup {[j EXCEPT !.phase = "backoff"]}
  /\ UNCHANGED <<open, chain, wallet, live, acts>>
\* (mutant: a quote the desk says is consumed counts as this client's trade)
AttemptFailsConsumed(j) ==
  /\ j.phase = "post"
  /\ IF j.id \in Ids /\ status[j.id] = "executed"
     THEN Goes(j, IF j.side = "sell" THEN "mint" ELSE "pay") /\ UNCHANGED <<page, fates>>
     ELSE IF j.attempt = maxRetries THEN Fails(j)
     ELSE /\ jobs' = (jobs \ {j}) \cup {[j EXCEPT !.phase = "backoff", !.attempt = @ + 1]}
          /\ UNCHANGED <<page, fates>>
  /\ \/ UNCHANGED desk
     \/ Execute(j.id, j.wallet) /\ UNCHANGED strays
  /\ UNCHANGED <<open, chain, wallet, live, acts>>
AttemptFails(j) ==
  /\ j.phase = "post"
  /\ \/ UNCHANGED desk
     \/ Execute(j.id, j.wallet) /\ UNCHANGED strays
     \/ /\ Posted(j) # {} /\ strays' = strays \cup Posted(j)
        /\ UNCHANGED <<status, executions, owner>>
  /\ IF j.attempt = maxRetries THEN Fails(j)
     ELSE /\ jobs' = (jobs \ {j}) \cup {[j EXCEPT !.phase = "backoff", !.attempt = @ + 1]}
          /\ UNCHANGED <<page, fates>>
  /\ UNCHANGED <<open, chain, wallet, live, acts>>

Retry(j) == /\ j.phase = "backoff"
            /\ Goes(j, "post")
            /\ UNCHANGED <<desk, open, chain, wallet, live, page, fates, acts>>

\* What the client gave up on, forwarded late or never.
Forwarded ==
  /\ \E p \in strays : /\ strays' = strays \ {p}
                       /\ \/ Execute(p[1], p[2])
                          \/ UNCHANGED <<status, executions, owner>>
  /\ UNCHANGED <<open, chain, wallet, live, page, jobs, fates, acts>>

\* A transaction is signed by the adapter's account, which must still be the one the
\* job was started with; it may land though the confirmation is not seen.
Signs(j) == wallet = j.wallet
\* (mutant: the trade is recorded before it is settled)
mintPtYtShown(j) ==
  /\ j.phase = "mint"
  /\ \E landed \in BOOLEAN :
       /\ landed => Signs(j) /\ chain.market = "open"
       /\ chain' = IF landed THEN [chain EXCEPT !.minted[j.id] = @ + 1] ELSE chain
       /\ Goes(j, "pay")
       /\ page' = IF Mine(j) THEN [page EXCEPT !.trade[j.side] = j.id] ELSE page
  /\ UNCHANGED <<desk, open, wallet, live, fates, acts>>
mintPtYt(j) ==
  /\ j.phase = "mint"
  /\ \E landed, seen \in BOOLEAN :
       /\ landed => Signs(j) /\ chain.market = "open"
       /\ seen => landed
       /\ chain' = IF landed THEN [chain EXCEPT !.minted[j.id] = @ + 1] ELSE chain
       /\ IF seen THEN Goes(j, "pay") /\ UNCHANGED <<page, fates>> ELSE Fails(j)
  /\ UNCHANGED <<desk, open, wallet, live, acts>>

\* The transfer to the LP, and the end of the job.
pays(j) ==
  /\ \E landed, seen \in BOOLEAN :
       /\ landed => Signs(j)
       /\ seen => landed
       /\ chain' = IF landed THEN [chain EXCEPT !.paid[j.id] = Append(@, j.wallet)] ELSE chain
       /\ IF seen
          THEN /\ jobs' = jobs \ {j}
               /\ page' = IF Mine(j) THEN [page EXCEPT !.busy[j.side] = FALSE,
                                                       !.trade[j.side] = j.id]
                          ELSE page
               /\ UNCHANGED fates
          ELSE Fails(j)
  /\ UNCHANGED <<desk, open, wallet, live, acts>>
\* Of YT, or of USDC.
sellYt(j) == j.phase = "pay" /\ j.side = "sell" /\ pays(j)
buybackYt(j) == j.phase = "pay" /\ j.side = "buyback" /\ pays(j)

-----------------------------------------------------------------------------
(* The admin closes the market, which the program allows without any supply. *)

handleCloseMarket ==
  /\ Act /\ "close" \in CloseSection
  /\ page' = [page EXCEPT !.closing = TRUE]
  /\ jobs' = jobs \cup {[side |-> "close", mount |-> page.mount, id |-> None,
                         wallet |-> wallet, phase |-> "close", attempt |-> 0]}
  /\ UNCHANGED <<desk, open, chain, wallet, live, fates>>

closeMarket(j) ==
  /\ j.phase = "close"
  /\ chain' \in {chain} \cup (IF Signs(j) /\ ~Supply THEN {[chain EXCEPT !.market = "closed"]} ELSE {})
  /\ jobs' = jobs \ {j}
  /\ page' = IF Mine(j) THEN [page EXCEPT !.closing = FALSE] ELSE page
  /\ UNCHANGED <<desk, open, wallet, live, fates, acts>>

-----------------------------------------------------------------------------
(* The others: quotes expire, another client executes one, governance pauses. *)

Expire == /\ \E id \in Quote!Having("offered") : Quote!Refresh({id}, {})
          /\ UNCHANGED <<owner, strays, open, chain, wallet, live, page, jobs, fates, acts>>
OtherExecutes == /\ \E id \in Ids : Quote!Execute(id)
                 /\ UNCHANGED <<owner, strays, open, chain, wallet, live, page, jobs, fates, acts>>
Pauses == /\ Act /\ open' = ~open
          /\ UNCHANGED <<desk, chain, wallet, live, page, jobs, fates>>

-----------------------------------------------------------------------------
JobStep(j) == \/ postSellYt(j) \/ postBuybackYt(j) \/ AttemptFails(j) \/ Retry(j)
              \/ mintPtYt(j) \/ sellYt(j) \/ buybackYt(j) \/ closeMarket(j)
User == \/ SwitchMode \/ SwitchAccount \/ Return \/ Reload \/ handleCloseMarket
          \/ getQuote \/ getBuyQuote \/ runAdvance \/ runBuyback
AdvanceNext == \/ User \/ Loads \/ Forwarded \/ Expire \/ OtherExecutes \/ Pauses
               \/ \E s \in Sides : Quoted(s)
               \/ \E j \in jobs : JobStep(j)
\* Each request ends, the user answers the wallet's prompts, and a timer goes off.
Fairness == /\ WF_vars(Loads) /\ \A s \in Sides : WF_vars(Quoted(s))
            /\ \A s \in Sides \cup {"close"}, m \in 1 .. MaxMounts :
                 WF_vars(\E j \in jobs : j.side = s /\ j.mount = m /\ JobStep(j))
AdvanceSpec == AdvanceInit /\ [][AdvanceNext]_vars /\ Fairness
-----------------------------------------------------------------------------
\* The page, its jobs and the chain have their shapes; a page runs one job per button.
ClientTypeOK ==
  /\ Quote!Having("new") \cup Quote!Having("offered") \cup Quote!Having("lapsed")
       \cup Quote!Having("executed") = Ids
  /\ owner \in [Ids -> Accounts] /\ strays \subseteq Ids \X Wallets
  /\ chain.market \in {"open", "closed"} /\ wallet \in Accounts /\ live \in BOOLEAN
  /\ page.mount \in 1 .. MaxMounts /\ acts \in 0 .. MaxActs
  /\ \A s \in Sides : /\ page.quote[s] \in {id \in Ids : id[1] = s} \cup {DemoQuote, None}
                      /\ page.trade[s] \in {id \in Ids : id[1] = s} \cup {None}
  /\ \A j \in jobs : /\ j.wallet \in Wallets /\ j.attempt \in 0 .. maxRetries
                     /\ j.phase \in {"mint", "pay"} => j.id \in Ids
                     /\ \A k \in jobs : j # k => <<j.side, j.mount>> # <<k.side, k.mount>>

\* runAdvance and runBuyback with their retries: whatever is posted again, forwarded
\* late or confirmed in two visits of the page, a quote is settled at most once, by the
\* wallet it was executed for, and its YT is minted once, before it is sold.
SettledOnce ==
  \A id \in Ids : LET paid == chain.paid[id] IN
    /\ Len(paid) + chain.minted[id] \in 0 .. IF id[1] = "sell" THEN 2 ELSE 1
    /\ chain.minted[id] > 0 => id[1] = "sell" /\ status[id] = "executed"
    /\ paid # <<>> => /\ Len(paid) = 1 /\ status[id] = "executed" /\ paid[1] = owner[id]
                      /\ id[1] = "sell" => chain.minted[id] = 1

\* runAdvance, runBuyback: what the desk executed for this user and the LP never got
\* is still being worked on, or the page has shown its failure, or the user had left the
\* page, or the failure came behind the loading screen, where the next load, switch or
\* error may erase it: and that befalls only a deal during which the data mode changed.
NoSilentLoss ==
  /\ \A id \in Ids : owner[id] # None /\ chain.paid[id] = <<>>
                       => id \in Deals(jobs) \cup told \cup left \cup unheard
  /\ unheard \subseteq switched

\* page.tsx 244-245 and 297-298: "Advance recorded" is shown for what was executed for
\* one of the user's wallets and paid, whatever was quoted, switched or left meanwhile.
ShownTradeWasDone ==
  \A s \in Sides : page.trade[s] # None
    => owner[page.trade[s]] # None /\ chain.paid[page.trade[s]] = <<owner[page.trade[s]]>>

\* A button that is busy comes back, also when every attempt of its posts fails.
ProcessingEnds ==
  \A s \in Sides : /\ page.busy[s] ~> ~page.busy[s]
                   /\ page.quoting[s] ~> ~page.quoting[s]

\* Jobs, quotes and payments fit together: one job per side and visit of the page, and
\* one settlement per quote.
OneDealPerQuote ==
  /\ ClientTypeOK
  /\ SettledOnce
=============================================================================
