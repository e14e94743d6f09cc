------------------------------ MODULE MCGuard ------------------------------
(* Two guard processes, three calls; the workloads are the id reuses,      *)
(* races for a cap or a mandate, and two-phase payments worth telling      *)
(* apart.  One window with a cap of 3 minor units. *)
EXTENDS Guard, TLC

CONSTANTS g1, g2, a1, a2, a3, x, y, man1, man2, pay1, pay2, shop, daily

MCProcesses == {g1, g2}
MCCalls == {a1, a2, a3}
MCIds == {x, y}
MCMandates == {man1, man2}
MCMaxUses == (man1 :> 1) @@ (man2 :> 2)
MCDigests == {pay1, pay2}
MCMerchants == {shop}
MCScopes == {daily}
MCWindows == daily :> {[windowMs |-> 1, capMinor |-> {3}, maxCount |-> {}, dimension |-> "scope"]}

Pay(g, id, amount, mandate, two) ==
  [process |-> g, id |-> id, amount |-> amount, key |-> {shop}, mandate |-> mandate,
   digest |-> IF amount = 1 THEN pay1 ELSE pay2, twoPhase |-> two]

Plan(p, q, r) == (a1 :> p) @@ (a2 :> q) @@ (a3 :> r)

(* one payment retried on two processes, and its id reused without a mandate *)
Retries == Plan(Pay(g1, x, 2, {man1}, FALSE), Pay(g2, x, 2, {man1}, FALSE), Pay(g1, x, 2, {}, FALSE))

(* one id under two mandates and with different money *)
IdReuse == Plan(Pay(g1, x, 2, {man1}, FALSE), Pay(g2, x, 2, {man2}, FALSE), Pay(g2, x, 1, {man2}, FALSE))

(* a race for a single use *)
Races == Plan(Pay(g1, x, 2, {man1}, FALSE), Pay(g2, y, 1, {man1}, FALSE), Pay(g2, x, 1, {}, TRUE))

(* a race for the cap, two-phase payments and a retry *)
TwoPhase == Plan(Pay(g1, x, 2, {man2}, TRUE), Pay(g2, x, 2, {man2}, TRUE), Pay(g1, y, 2, {}, TRUE))

MCRetries == {Retries}

(* one process: its line is the only thing calls wait for *)
MCOneProcess == {g1}
Line == Plan(Pay(g1, x, 2, {man1}, FALSE), Pay(g1, x, 2, {man1}, TRUE), Pay(g1, y, 2, {}, FALSE))
MCLine == {Line}

MCWorkloads == {Retries, IdReuse, Races, TwoPhase}
=============================================================================
