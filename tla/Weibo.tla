------------------------------- MODULE Weibo -------------------------------
(***************************************************************************)
(* The pushing of new weibos (modules/module/weibo/).                      *)
(*                                                                         *)
(*   weibo_spider.h   GetLastestWeibos, CleanBuffer                        *)
(*   weibo_push.h     the constructor, WeiboPuller, CleanBuffer            *)
(*   utils.h          what the requests to the site come to                *)
(*                                                                         *)
(* One service with a sequence of spiders, one per followed user.  A weibo *)
(* is <<spider, n>>, the user's n-th.  Every request suspends: time, posts *)
(* and CleanBuffer (cron, 5:05) fall between the cards of a page.  An      *)
(* exception ends a round of the puller, which the scheduler starts again. *)
(* One of the constructor is caught by InitModule (module_manager.h:24):   *)
(* this process then runs without the module.  A request that gets no      *)
(* response at all ends the process: its null pointer is used (utils.h:30).*)
(***************************************************************************)
EXTENDS Integers, Sequences, FiniteSets

CONSTANTS
    Spiders,    \* spiders_ of the service, a sequence
    Filtered,   \* weibos with a filter word
    Skipped,    \* retweets, of a user with filter
    PageSize,   \* cards on the page that is fetched
    Buffer,     \* received_weibo_list_ is trimmed to this length: 10
    MaxAge,     \* older weibos are not new: 120 minutes
    MaxPosts,   \* bound: how many weibos each user posts
    MaxMinutes, MaxFaults  \* bounds: time, failures

FollowedIds == DOMAIN Spiders

\* A service has an entry in spiders_ by its first spider.
ASSUME WeiboAssumption ==
    /\ Len(Spiders) \in Nat \ {0} /\ FollowedIds = 1 .. Len(Spiders)
    /\ MaxPosts \in [FollowedIds -> Nat]
    /\ PageSize \in Nat /\ Buffer \in Nat \ {0} /\ MaxAge \in Nat

VARIABLES
    minute,     \* time
    posted,     \* posted[s]: when the user posted each of his weibos
    puller_at,  \* "down": there is no module, or where the constructor or WeiboPuller is
    loading,    \* it is the constructor
    due,        \* when the next round is due
    spider,     \* the spider whose turn it is
    cards,      \* what is left of its page
    latest,     \* lastest_weibo
    texts,      \* weibos: the texts to broadcast
    received,   \* received_weibo_ids_ of each spider
    buffer,     \* received_weibo_list_
    faults,
    \* history
    since,      \* when the process was started
    found,      \* found[s][n]: how often the weibo was new to this process
    pushed,     \* weibos that were broadcast by this process
    known, lost \* received by the constructor; received and then not broadcast

world == <<minute, posted>>
puller == <<puller_at, loading, due, spider, cards, latest, texts>>
spiders == <<received, buffer>>
weiboHistory == <<since, found, pushed, known, lost>>
weiboVars == <<world, puller, spiders, weiboHistory, faults>>

PostedAt(w) == posted[w[1]][w[2]]
Elements(seq) == {seq[k] : k \in DOMAIN seq}

-----------------------------------------------------------------------------
(***************************************************************************)
(* The site and the process                                                *)
(***************************************************************************)
Post(s) ==
    /\ Len(posted[s]) < MaxPosts[s]
    /\ posted' = [posted EXCEPT ![s] = Append(@, minute)]
    /\ UNCHANGED <<minute, puller, spiders, weiboHistory, faults>>

Tick ==
    /\ minute < MaxMinutes /\ minute' = minute + 1
    /\ UNCHANGED <<posted, puller, spiders, weiboHistory, faults>>

\* The newest cards come first.
Page(s) ==
    LET n == Len(posted[s])
    IN  [k \in 1 .. (IF n < PageSize THEN n ELSE PageSize) |-> <<s, n + 1 - k>>]

WeiboStep(where, s) == puller_at' = where /\ spider' = s

\* A round ends, or the constructor: interval(1min) counts from the end of a round.
Rest(time) == WeiboStep("idle", 1) /\ due' = time

\* The constructors of the module and of its spiders
StartWeibo ==
    /\ puller_at = "down"
    /\ WeiboStep("fetch", 1) /\ loading' = TRUE
    /\ since' = minute /\ found' = [s \in FollowedIds |-> [n \in 1 .. MaxPosts[s] |-> 0]]
    /\ pushed' = {} /\ known' = {} /\ lost' = {}
    /\ UNCHANGED <<world, due, cards, latest, texts, spiders, faults>>

\* The process ends, or the constructor throws: the next thing the module does is to be
\* constructed by the next process.
Dies ==
    /\ puller_at # "down" /\ faults < MaxFaults /\ faults' = faults + 1
    /\ WeiboStep("down", 1) /\ loading' = FALSE /\ due' = 0
    /\ cards' = <<>> /\ latest' = <<>> /\ texts' = <<>>
    /\ received' = [s \in FollowedIds |-> {}] /\ buffer' = [s \in FollowedIds |-> <<>>]
    /\ UNCHANGED <<world, weiboHistory>>

\* WeiboPuller
Pull ==
    /\ puller_at = "idle" /\ minute >= due
    /\ WeiboStep("fetch", 1) /\ texts' = <<>>
    /\ UNCHANGED <<world, loading, due, cards, latest, spiders, weiboHistory, faults>>

\* An answer that is not the JSON that is read from it: the weibos that the round has
\* received so far are gone.
RoundFails ==
    /\ puller_at \in {"fetch", "cards"} /\ ~loading
    /\ faults < MaxFaults /\ faults' = faults + 1
    /\ Rest(minute + 1)
    /\ lost' = lost \cup Elements(texts) \cup Elements(latest)
    /\ cards' = <<>> /\ latest' = <<>> /\ texts' = <<>>
    /\ UNCHANGED <<world, loading, spiders, since, found, pushed, known>>

-----------------------------------------------------------------------------
(***************************************************************************)
(* GetLastestWeibos                                                        *)
(***************************************************************************)

\* GetWeiboJson; the site may answer without "ok".
Fetch ==
    /\ puller_at = "fetch" /\ WeiboStep("cards", spider)
    /\ \/ cards' = Page(spider) /\ UNCHANGED faults
       \/ cards' = <<>> /\ faults < MaxFaults /\ faults' = faults + 1
    /\ latest' = <<>>
    /\ UNCHANGED <<world, loading, due, texts, spiders, weiboHistory>>

Enter(w, isNew) ==
    /\ received' = [received EXCEPT ![spider] = @ \cup {w}]
    /\ buffer' = [buffer EXCEPT ![spider] = Append(@, w)]
    /\ latest' = IF isNew THEN Append(latest, w) ELSE latest
    /\ found' = IF isNew THEN [found EXCEPT ![w[1]][w[2]] = @ + 1] ELSE found
    /\ known' = IF loading THEN known \cup {w} ELSE known

\* A card, when GetOneWeibo has fetched what it needs of it.  A weibo with a filter
\* word is entered again each time it is seen.
Card ==
    LET w == Head(cards)
    IN  /\ puller_at = "cards" /\ cards # <<>> /\ cards' = Tail(cards)
        /\ IF w \in Filtered
             THEN Enter(w, FALSE)
             ELSE IF \/ w \in received[spider] \cup Skipped
                     \/ minute - PostedAt(w) > MaxAge
               THEN UNCHANGED <<spiders, latest, found, known>>
               ELSE Enter(w, TRUE)
        /\ UNCHANGED <<world, puller_at, loading, due, spider, texts, since, pushed, lost,
                       faults>>

\* Mutant: the texts of the spiders before are dropped.
SpiderEnds_Fresh ==
    /\ puller_at = "cards" /\ cards = <<>>
    /\ texts' = IF loading THEN <<>> ELSE latest
    /\ latest' = <<>>
    /\ IF spider < Len(Spiders)
         THEN WeiboStep("fetch", spider + 1) /\ UNCHANGED <<loading, due>>
         ELSE IF loading THEN Rest(minute) /\ loading' = FALSE
                         ELSE WeiboStep("broadcast", 1) /\ UNCHANGED <<loading, due>>
    /\ UNCHANGED <<world, cards, spiders, weiboHistory, faults>>

\* The next spider.  The constructor drops what is new; WeiboPuller converts all of it
\* once for each new weibo, with a transform inside the loop; that the second pass
\* reads what is retweeted instead (wb = wb["retweet"]) is left out.
SpiderEnds ==
    /\ puller_at = "cards" /\ cards = <<>>
    /\ LET n == Len(latest)
       IN  texts' = IF loading THEN <<>>
                    ELSE texts \o [k \in 1 .. n * n |-> latest[((k - 1) % n) + 1]]
    /\ latest' = <<>>
    /\ IF spider < Len(Spiders)
         THEN WeiboStep("fetch", spider + 1) /\ UNCHANGED <<loading, due>>
         ELSE IF loading THEN Rest(minute) /\ loading' = FALSE
                         ELSE WeiboStep("broadcast", 1) /\ UNCHANGED <<loading, due>>
    /\ UNCHANGED <<world, cards, spiders, weiboHistory, faults>>

\* BroadCast to every bot, if one is connected
Broadcast ==
    /\ puller_at = "broadcast" /\ Rest(minute + 1)
    /\ \/ pushed' = pushed \cup Elements(texts) /\ UNCHANGED <<lost, faults>>
       \/ /\ lost' = lost \cup Elements(texts) /\ UNCHANGED pushed
          /\ texts # <<>> /\ faults < MaxFaults /\ faults' = faults + 1
    /\ texts' = <<>>
    /\ UNCHANGED <<world, loading, cards, latest, spiders, since, found, known>>

\* Mutant: while size() >= 10.
Excess_OneMore(s) == IF Len(buffer[s]) >= Buffer THEN Len(buffer[s]) - Buffer + 1 ELSE 0

\* How many entries are dropped: while size() > 10
Excess(s) == IF Len(buffer[s]) > Buffer THEN Len(buffer[s]) - Buffer ELSE 0

CleanBuffer ==
    /\ puller_at # "down" /\ ~loading
    /\ buffer' = [s \in FollowedIds |-> SubSeq(buffer[s], Excess(s) + 1, Len(buffer[s]))]
    /\ received' = [s \in FollowedIds |-> received[s] \ {buffer[s][k] : k \in 1 .. Excess(s)}]
    /\ UNCHANGED <<world, puller, weiboHistory, faults>>

-----------------------------------------------------------------------------
WeiboInit ==
    /\ minute = 0 /\ posted = [s \in FollowedIds |-> <<>>]
    /\ puller_at = "down" /\ loading = FALSE /\ due = 0 /\ spider = 1
    /\ cards = <<>> /\ latest = <<>> /\ texts = <<>>
    /\ received = [s \in FollowedIds |-> {}] /\ buffer = [s \in FollowedIds |-> <<>>]
    /\ faults = 0
    /\ since = 0 /\ found = [s \in FollowedIds |-> [n \in 1 .. MaxPosts[s] |-> 0]]
    /\ pushed = {} /\ known = {} /\ lost = {}

WeiboNext ==
    \/ \E s \in FollowedIds : Post(s)
    \/ Tick \/ StartWeibo \/ Dies \/ Pull \/ RoundFails
    \/ Fetch \/ Card \/ SpiderEnds \/ Broadcast \/ CleanBuffer

WeiboSpec == WeiboInit /\ [][WeiboNext]_weiboVars

-----------------------------------------------------------------------------
(***************************************************************************)
(* Properties                                                              *)
(***************************************************************************)

\* The user posts nothing that is filtered, and no more than Buffer weibos in any
\* 2 * MaxAge: 10 in 4 hours.
Calm(s) ==
    \A m, n \in DOMAIN posted[s] :
        /\ <<s, n>> \notin Filtered
        /\ posted[s][n] - posted[s][m] \in 0 .. 2 * MaxAge => n - m < Buffer

\* To one process a weibo of a calm user is new once at most: CleanBuffer, whatever it
\* comes between, forgets none that is still young enough to be taken for new.
NewOnce ==
    \A s \in FollowedIds : Calm(s) => \A n \in 1 .. MaxPosts[s] : found[s][n] <= 1

\* Between two rounds, what a process has taken for new has been broadcast, except
\* the rounds that failed or found no bot: received and lost for good.
NewArePushed ==
    puller_at = "idle" =>
        \A s \in FollowedIds : \A n \in 1 .. MaxPosts[s] :
            found[s][n] > 0 => <<s, n>> \in pushed \cup known \cup lost

\* weibo_spider.h:25, "防止重复推送，只推送启动后的": only what was posted after the
\* start is pushed.
PushedSinceStart ==
    [][\A w \in pushed' \ pushed : since' = since => PostedAt(w) >= since]_weiboVars
=============================================================================
