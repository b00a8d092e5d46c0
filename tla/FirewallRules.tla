---------------------------- MODULE FirewallRules ----------------------------
(***************************************************************************)
(* The firewall page (internal/system/network/firewall/firewall.go,        *)
(* internal/api/handlers/firewall.go, web/src/routes/Firewall.svelte).     *)
(*                                                                         *)
(* Several tabs show the rules they loaded last and act on them.  Every    *)
(* request runs one command of ufw, nft or iptables, which is taken to be  *)
(* one step; between the load of a page and a click on it the other tabs   *)
(* act.  ufw has one list of rules, iptables one list per chain.           *)
(***************************************************************************)
EXTENDS Naturals, Sequences, SequencesExt

CONSTANTS
  Admins,    \* browser tabs on the firewall page
  MaxRules,  \* bound of the model: rules ever added, the first rule of a chain included
  MaxClicks  \* bound of the model: requests that change the firewall

ASSUME FirewallAssumption == MaxRules \in Nat \ {0} /\ MaxClicks \in Nat

VARIABLES
  backend,   \* the tool detected when the server started
  on,        \* the firewall is active
  rules,     \* chain -> its rules, in order
  page,      \* tab -> the status it shows
  fresh,     \* history: tabs whose page was loaded after the last change
  deleted,   \* history: the row of the last delete, and whether its page was fresh
  added,     \* number of rules ever added
  clicks     \* number of requests so far

fwVars == <<backend, on, rules, page, fresh, deleted, added, clicks>>

Backends == {"ufw", "nftables", "iptables"}
Chains == {"INPUT", "FORWARD"}

\* A row of the table of rules: what it shows and the id it would delete by.
Rows(chain) == [i \in 1..Len(rules[chain]) |->
                  [id |-> i, chain |-> chain, rule |-> rules[chain][i]]]

NoStatus == [active |-> FALSE, rows |-> <<>>]
NoRow == [id |-> 0, chain |-> "INPUT", rule |-> 0]

FwInit ==
  /\ backend \in Backends
  /\ on = (backend # "ufw")
  /\ rules = [c \in Chains |-> IF c = "FORWARD" /\ backend # "ufw" THEN <<1>> ELSE <<>>]
  /\ page = [t \in Admins |-> NoStatus]
  /\ fresh = {}
  /\ deleted = [row |-> NoRow, fresh |-> FALSE]
  /\ added = 1
  /\ clicks = 0

-----------------------------------------------------------------------------
\* ufwStatus looks for "active" in "Status: active" or "Status: inactive";
\* nftStatus for rules; iptablesStatus answers true.
ReportedActive ==
  CASE backend = "ufw" -> TRUE
    [] backend = "nftables" -> rules["INPUT"] \o rules["FORWARD"] # <<>>
    [] backend = "iptables" -> TRUE

\* An inactive ufw lists no rules; iptables numbers each chain from 1.
ReportedRows ==
  IF backend = "ufw"
  THEN IF on THEN Rows("INPUT") ELSE <<>>
  ELSE Rows("INPUT") \o Rows("FORWARD")

\* GET /api/firewall; a command that fails counts as "inactive, no rules".
Status(t) ==
  /\ \/ /\ page' = [page EXCEPT ![t] = [active |-> ReportedActive, rows |-> ReportedRows]]
        /\ fresh' = fresh \union {t}
     \/ /\ page' = [page EXCEPT ![t] = NoStatus]
        /\ fresh' = fresh \ {t}
  /\ UNCHANGED <<backend, on, rules, deleted, added, clicks>>

Click ==
  /\ clicks < MaxClicks
  /\ clicks' = clicks + 1

\* The button: POST /api/firewall/disable when the page shows the firewall as
\* active, else enable.  Only ufw can be switched.
Toggle(t) ==
  /\ Click
  /\ backend = "ufw"
  /\ on' = ~page[t].active
  /\ fresh' = {}
  /\ UNCHANGED <<backend, rules, page, deleted, added>>

\* POST /api/firewall/rules: the form names no chain, the rule goes to the end
\* of the input chain.
AddRule(t) ==
  /\ Click
  /\ added < MaxRules
  /\ added' = added + 1
  /\ rules' = [rules EXCEPT !["INPUT"] = Append(@, added + 1)]
  /\ fresh' = {}
  /\ UNCHANGED <<backend, on, page, deleted>>

Without(s, i) == RemoveAt(s, i)

\* DELETE /api/firewall/rules/{id}: iptables deletes the rule that has this
\* number in the input chain now, whatever the chain of the row.  ufw asks for a
\* confirmation, which nobody gives, and an nft id is "table family chain line",
\* never what nft expects: neither deletes a rule.
DeleteRule(t) ==
  /\ Click
  /\ backend = "iptables"
  /\ \E k \in 1..Len(page[t].rows) :
       LET row == page[t].rows[k] IN
       /\ row.id \in 1..Len(rules["INPUT"])
       /\ rules' = [rules EXCEPT !["INPUT"] = Without(@, row.id)]
       /\ deleted' = [row |-> row, fresh |-> t \in fresh]
  /\ fresh' = {}
  /\ UNCHANGED <<backend, on, page, added>>

\* (A click whose command is refused, not supported or not permitted changes nothing.)
FwNext == \E t \in Admins : Status(t) \/ Toggle(t) \/ AddRule(t) \/ DeleteRule(t)

FwSpec == FwInit /\ [][FwNext]_fwVars

-----------------------------------------------------------------------------
FwTypeOK ==
  /\ backend \in Backends
  /\ on \in BOOLEAN
  /\ rules \in [Chains -> Seq(1..added)]
  /\ \A t \in Admins :
       /\ page[t].active \in BOOLEAN
       /\ \A k \in 1..Len(page[t].rows) :
            page[t].rows[k] \in [id : 1..MaxRules, chain : Chains, rule : 1..added]
  /\ fresh \subseteq Admins
  /\ added \in 1..MaxRules
  /\ clicks \in 0..MaxClicks

(* What a delete removes is the rule of the row that was clicked, and no   *)
(* other, when the row is of the input chain and the page was loaded after *)
(* the last change.                                                        *)
OnlyTheRuleShown ==
  [][Len(rules'["INPUT"]) < Len(rules["INPUT"]) =>
       /\ rules'["FORWARD"] = rules["FORWARD"]
       /\ deleted'.fresh /\ deleted'.row.chain = "INPUT" =>
            ToSet(rules["INPUT"]) \ ToSet(rules'["INPUT"]) = {deleted'.row.rule}]_fwVars
=============================================================================
