---------------------------- MODULE WalletSession ----------------------------
(***************************************************************************)
(* The wallet session of the browser client: the selected account and      *)
(* network of MetamaskHostProvider, the JavaScript listeners that report   *)
(* the wallet's changes, and the Authorization header that the components  *)
(* set, from the token in local storage, each time the account changes.    *)
(*                                                                         *)
(* The client has one thread.  Every call into JavaScript suspends its     *)
(* caller; its answer is a job that runs in a later turn, and answers come *)
(* back in the order of the calls.  A change of the wallet reaches .NET at *)
(* once, through DotNet.invokeMethodAsync, so it can run between any two   *)
(* jobs.                                                                   *)
(***************************************************************************)
EXTENDS Integers, Sequences, FiniteSets

CONSTANTS
  Accounts,    \* the wallet's accounts
  Chains,      \* the ids of the networks it can be on
  Half,        \* 2^31: half of the numbers of 32 bits
  Storages,    \* the contents the local storage may have
  None,        \* no account; of the header: no token
  MaxEvents,   \* bound: changes of the wallet
  MaxEnables   \* bound: clicks on "Connect Metamask"

ASSUME SessionAssumption ==
  /\ None \notin Accounts
  /\ Chains \subseteq Nat \ {0}
  /\ Half \in Nat \ {0}
  /\ Storages \subseteq [Accounts -> {"absent", "blank", "token"}]
  /\ MaxEvents \in Nat /\ MaxEnables \in Nat

VARIABLES
  account,     \* the account the wallet shows to this site, or None
  chain,       \* the network it is on
  storage,     \* the local storage's entry "JWT:<account>"
  listeners,   \* pairs of listeners EnableEthereum has added
  available,   \* Available, SelectedAccount and Network of the provider
  selected,
  network,
  header,      \* whose token DefaultRequestHeaders.Authorization carries
  indexOpen,   \* whether the page Index, a second subscriber, is shown
  jobs,        \* the answers of JavaScript calls, oldest first
  awaited,     \* the awaits of SelectedAccountChanged.Invoke in progress
  asking,      \* calls of eth_requestAccounts the user has not answered
  events, enables,   \* how many so far, for the bounds
  odd          \* what has gone wrong, or out of the usual order

wallet == <<account, chain, storage, listeners>>
provider == <<available, selected, network>>
bounds == <<events, enables>>
vars == <<account, chain, storage, listeners, available, selected, network,
          header, indexOpen, jobs, awaited, asking, events, enables, odd>>

-----------------------------------------------------------------------------
(* Subscribers and jobs *)

\* The components subscribed to SelectedAccountChanged, in the order of
\* subscription: Metamask is part of the layout, Index comes and goes.
Subscribers == IF indexOpen THEN <<"Metamask", "Index">> ELSE <<"Metamask">>

Answers ==
  [at : {"available"}, value : BOOLEAN]
    \cup [at : {"address", "enabled"}, value : Accounts \cup {None}]
    \cup [at : {"network"}, value : Chains]

Handlers ==
  [at : {"contains", "item"}, value : Accounts \cup {None},
   run : Nat, by : {"Metamask", "Index"}]

\* An await of the invocation number run: it ends with the handler of last,
\* and then either goes on with the start-up or has nothing more to do.
Awaits == [run : Nat, last : {"Metamask", "Index"}, then : {"network", "end"}]

Head1(at) == jobs # <<>> /\ Head(jobs).at = at

InFlight(kinds) == \E n \in 1..Len(jobs) : jobs[n].at \in kinds

HandlersOf(js) == {js[n] : n \in {m \in 1..Len(js) : js[m].at \in {"contains", "item"}}}

FreshRun(js) ==
  CHOOSE r \in 1..(Len(jobs) + Cardinality(awaited) + 1) :
    /\ \A h \in HandlersOf(js) : h.run # r
    /\ \A w \in awaited : w.run # r

\* Mutant of LastOf: the first subscriber's task is awaited.
LastOfFirst(subscribers) == subscribers[1]

\* Mutant of LastOf: the page is awaited whether or not it is there.
LastOfIndex(subscribers) == "Index"

\* The awaited task of a multicast delegate is the last subscriber's.
LastOf(subscribers) == subscribers[Len(subscribers)]

\* Mutant of Cleared: the header is left as it was.
ClearedNot == header

\* TryAddHttpAuthenticationAsync first clears the header.
Cleared == None

\* SelectedAccountChanged.Invoke(a), the jobs being js: each subscriber's
\* handler clears the header and asks for the storage's key.
Invoke(js, a, then, late) ==
  LET run == FreshRun(js)
      calls == [n \in 1..Len(Subscribers) |->
                  [at |-> "contains", value |-> a, run |-> run, by |-> Subscribers[n]]]
  IN /\ header' = Cleared
     /\ jobs' = js \o calls
     /\ awaited' = awaited \cup {[run |-> run, last |-> LastOf(Subscribers), then |-> then]}
     /\ odd' = odd \cup late
                 \cup {"overlap" : h \in {x \in HandlersOf(js) : x.value # a}}

\* Mutant of Continue: start-up leaves the network to chainChanged.
ContinueWithout(then, js) == js

\* Then the caller goes on: at start-up it asks for the network.
Continue(then, js) ==
  IF then = "network" THEN Append(js, [at |-> "network", value |-> chain]) ELSE js

\* ChangeSelectedAccountAsync(a)
ChangeSelectedAccount(js, a, then, late) ==
  \/ /\ selected # a
     /\ selected' = a
     /\ Invoke(js, a, then, late)
  \/ /\ selected = a
     /\ jobs' = Continue(then, js)
     /\ odd' = odd \cup late
     /\ UNCHANGED <<selected, header, awaited>>

-----------------------------------------------------------------------------
(* Start-up *)

\* Both components are created, and Metamask asks whether there is a wallet.
Init ==
  /\ account \in Accounts \cup {None}
  /\ chain \in Chains
  /\ storage \in Storages
  /\ listeners = 0
  /\ available = FALSE /\ selected = None /\ network = 0
  /\ header = None
  /\ indexOpen \in BOOLEAN
  /\ jobs \in {<<[at |-> "available", value |-> v]>> : v \in BOOLEAN}
  /\ awaited = {}
  /\ asking = 0
  /\ events = 0 /\ enables = 0
  /\ odd = {}

\* CheckProviderAvailabilityAsync; GetSelectedAddress reads the account.
TakeAvailable ==
  /\ Head1("available")
  /\ available' = Head(jobs).value
  /\ jobs' = IF Head(jobs).value
             THEN Append(Tail(jobs), [at |-> "address", value |-> account])
             ELSE Tail(jobs)
  /\ UNCHANGED <<wallet, selected, network, header, indexOpen, awaited, asking, bounds, odd>>

\* GetProviderSelectedAccountAsync, then GetProviderNetworkAsync.
TakeAddress ==
  /\ Head1("address")
  /\ ChangeSelectedAccount(Tail(jobs), Head(jobs).value, "network", {})
  /\ UNCHANGED <<wallet, available, network, indexOpen, asking, bounds>>

\* Convert.ToInt32(id, 16) takes 32 bits for a signed number and throws when
\* there are more.
Convertible(c) == c < 2 * Half

ToInt32(c) == IF c < Half THEN c ELSE c - 2 * Half

\* GetProviderNetworkAsync, then ChangeNetworkAsync; or the wallet refuses
\* eth_chainId, or its id is too large: either throws, and the network stays.
TakeNetwork ==
  /\ Head1("network")
  /\ \/ /\ Convertible(Head(jobs).value)
        /\ network' = ToInt32(Head(jobs).value)
        /\ UNCHANGED odd
     \/ /\ odd' = odd \cup {"unread"}
        /\ UNCHANGED network
  /\ jobs' = Tail(jobs)
  /\ UNCHANGED <<wallet, available, selected, header, indexOpen, awaited, asking, bounds>>

-----------------------------------------------------------------------------
(* Connecting *)

\* The button of Metamask.razor, shown while no account is selected.
ClickConnect ==
  /\ available /\ selected = None
  /\ enables < MaxEnables
  /\ enables' = enables + 1
  /\ asking' = asking + 1
  /\ UNCHANGED <<wallet, provider, header, indexOpen, jobs, awaited, events, odd>>

\* Mutant of StillAsking: a request that was answered stays open.
StillAskingAll == asking

\* A call of eth_requestAccounts is answered once.
StillAsking == asking - 1

\* eth_requestAccounts is granted for the account the wallet shows, and
\* EnableEthereum adds a pair of listeners, every time it is called.
Approve ==
  /\ asking > 0 /\ account # None
  /\ asking' = StillAsking
  /\ listeners' = listeners + 1
  /\ jobs' = Append(jobs, [at |-> "enabled", value |-> account])
  /\ UNCHANGED <<account, chain, storage, provider, header, indexOpen, awaited, bounds, odd>>

\* It is refused: EnableEthereum catches the error and returns null.
Reject ==
  /\ asking > 0
  /\ asking' = StillAsking
  /\ jobs' = Append(jobs, [at |-> "enabled", value |-> None])
  /\ UNCHANGED <<wallet, provider, header, indexOpen, awaited, bounds, odd>>

\* EnableProviderAsync: an account is taken even when it is the selected one.
TakeEnabled ==
  /\ Head1("enabled")
  /\ LET a == Head(jobs).value IN
       \/ /\ a # None
          /\ selected' = a
          /\ Invoke(Tail(jobs), a, "end", {})
       \/ /\ a = None
          /\ jobs' = Tail(jobs)
          /\ UNCHANGED <<selected, header, awaited, odd>>
  /\ UNCHANGED <<wallet, available, network, indexOpen, asking, bounds>>

-----------------------------------------------------------------------------
(* Handlers of SelectedAccountChanged *)

\* The handler h ends; if the invocation awaits it, the caller goes on.
EndHandler(h) ==
  LET ended == {w \in awaited : w.run = h.run /\ w.last = h.by}
      goOn == \E w \in ended : w.then = "network"
  IN /\ awaited' = awaited \ ended
     /\ jobs' = Continue(IF goOn THEN "network" ELSE "end", Tail(jobs))

HasKey(a) == a # None /\ storage[a] # "absent"

TakeContains ==
  /\ Head1("contains")
  /\ LET h == Head(jobs) IN
       \/ /\ HasKey(h.value)
          /\ jobs' = Append(Tail(jobs), [h EXCEPT !.at = "item"])
          /\ UNCHANGED awaited
       \/ /\ ~HasKey(h.value)
          /\ EndHandler(h)
  /\ UNCHANGED <<wallet, provider, header, indexOpen, asking, bounds, odd>>

\* Mutant of HeaderWith: only a header that is not set yet is set.
HeaderWithFirst(a) == IF storage[a] = "token" /\ header = None THEN a ELSE header

\* The header after GetItemAsStringAsync: a blank token is not used.
HeaderWith(a) == IF storage[a] = "token" THEN a ELSE header

TakeItem ==
  /\ Head1("item")
  /\ header' = HeaderWith(Head(jobs).value)
  /\ EndHandler(Head(jobs))
  /\ UNCHANGED <<wallet, provider, indexOpen, asking, bounds, odd>>

-----------------------------------------------------------------------------
(* The wallet and the page *)

\* An answer of these kinds, read before the change, will undo it.
Late(kinds) == IF listeners > 0 /\ InFlight(kinds) THEN {"overtaken"} ELSE {}

\* Mutant of Reported: the removal of the account is not passed on.
ReportedUnlessNone(old, new) == IF new = None THEN old ELSE new

\* What a listener passes on of the new accounts: accounts[0].
Reported(old, new) == new

\* accountsChanged: each listener calls ChangeSelectedAccountAsync, the
\* second and later ones with the account the first has set.
SwitchAccount(a) ==
  /\ events < MaxEvents
  /\ a # account
  /\ events' = events + 1
  /\ account' = a
  /\ \/ /\ listeners > 0
        /\ ChangeSelectedAccount(jobs, Reported(account, a), "end", Late({"address", "enabled"}))
     \/ /\ listeners = 0
        /\ UNCHANGED <<selected, header, jobs, awaited, odd>>
  /\ UNCHANGED <<chain, storage, listeners, available, network, indexOpen, asking, enables>>

\* Why a change of the network to c does not reach the provider: there is no
\* listener, or converting the id throws.
Unnoticed(c) ==
  CASE listeners = 0 -> {"unheard"}
    [] listeners > 0 /\ ~Convertible(c) -> {"unread"}
    [] OTHER -> {}

\* chainChanged, through ChangeNetworkAsync, whose handlers do not wait.  A
\* change that arrives makes up for those that did not.
SwitchChain(c) ==
  /\ events < MaxEvents
  /\ c # chain
  /\ events' = events + 1
  /\ chain' = c
  /\ \/ /\ Unnoticed(c) = {}
        /\ network' = ToInt32(Reported(chain, c))
        /\ odd' = (odd \ {"unheard", "unread"}) \cup Late({"network"})
     \/ /\ Unnoticed(c) # {}
        /\ network' = network
        /\ odd' = odd \cup Late({"network"}) \cup Unnoticed(c)
  /\ UNCHANGED <<account, storage, listeners, available, selected, header, indexOpen,
                 jobs, awaited, asking, enables>>

\* Index is opened, and subscribes, or left, and Dispose unsubscribes it: its
\* handlers that have started go on.
Navigate ==
  /\ indexOpen' = ~indexOpen
  /\ UNCHANGED <<wallet, provider, header, jobs, awaited, asking, bounds, odd>>

-----------------------------------------------------------------------------
(* Specification *)

Run == TakeAvailable \/ TakeAddress \/ TakeNetwork \/ TakeEnabled \/ TakeContains \/ TakeItem

Next ==
  \/ Run
  \/ ClickConnect \/ Approve \/ Reject
  \/ \E a \in Accounts \cup {None} : SwitchAccount(a)
  \/ \E c \in Chains : SwitchChain(c)
  \/ Navigate

\* The browser runs the jobs that are ready; nothing is assumed of the user,
\* the wallet or the order in which its events fall among the jobs.
Fairness == WF_vars(Run)

Spec == Init /\ [][Next]_vars /\ Fairness

-----------------------------------------------------------------------------
(* Properties *)

TypeOK ==
  /\ account \in Accounts \cup {None} /\ chain \in Chains
  /\ storage \in Storages
  /\ listeners \in 0..MaxEnables
  /\ available \in BOOLEAN /\ selected \in Accounts \cup {None}
  /\ network \in {ToInt32(c) : c \in Chains} \cup {0}
  /\ header \in Accounts \cup {None}
  /\ indexOpen \in BOOLEAN
  /\ jobs \in Seq(Answers \cup Handlers)
  /\ awaited \subseteq Awaits
  /\ asking \in 0..MaxEnables
  /\ events \in 0..MaxEvents /\ enables \in 0..MaxEnables
  /\ odd \subseteq {"overlap", "overtaken", "unheard", "unread"}

Quiet == jobs = <<>> /\ awaited = {}

\* The bearer token in use is never one for an account other than the
\* selected one, unless the account has changed again while a handler of the
\* earlier change was between its two awaits (AppComponent.cs:53-66): the
\* handler does not look again at the account before it sets the header.
HeaderOfSelected ==
  "overlap" \notin odd => header \in {None, selected}

\* Whatever the interleaving, once the handlers have ended the selected
\* account's token, when there is one, is the one in use: the handlers of the
\* last change also end last.
TokenSettles ==
  (Quiet /\ selected # None /\ storage[selected] = "token") => header = selected

\* "await SelectedAccountChanged.Invoke(...)" waits for the last subscriber
\* only (MetamaskHostProvider.cs:112), and yet no caller goes on before every
\* handler of its own invocation has ended.
AwaitCoversAll ==
  \A h \in HandlersOf(jobs) : \E w \in awaited : w.run = h.run

\* Once the user has connected, the provider follows the wallet's account,
\* unless an event came between the read of an account and the use of it
\* (MetamaskHostProvider.cs:47-52, 69-70).
AccountFollowed ==
  (Quiet /\ listeners > 0 /\ "overtaken" \notin odd) => selected = account

\* It follows the network too, from the first change that it hears and can
\* convert, or from its start when it could read it then: connecting does not
\* ask again (EnableProviderAsync), nothing retries a read that was refused
\* (NethereumMetamask.js:33-35), and Convert.ToInt32 throws over an id of more
\* than 32 bits (MetamaskHostProvider.cs:77, MetamaskBlazorInterop.cs:87).
NetworkFollowed ==
  (Quiet /\ available /\ odd \cap {"overtaken", "unheard", "unread"} = {})
    => network = ToInt32(chain)

\* An invocation that is awaited ends, also when the page that handles it is
\* left meanwhile, so that start-up goes on to ask for the network.
InvocationsEnd ==
  (awaited # {}) ~> (awaited = {})
=============================================================================
