---------------------------- MODULE ExperienceRules ----------------------------
(***************************************************************************)
(* The rules of progression.constants.ts and the effect of one             *)
(* grantInTransaction on the progression of the user whose row is locked.  *)
(*                                                                         *)
(* A user's progression is a record: experience and level are columns of   *)
(* users, granted maps the idempotency keys of the user's experience       *)
(* events to what they gave, counts is the user's experience_daily_stats   *)
(* (per day and counter) and announced holds the level-up events put into  *)
(* the outbox, each with the key of the experience event that caused it.   *)
(***************************************************************************)
EXTENDS Integers, Sequences

CONSTANTS
    LevelThresholds,   \* LEVEL_THRESHOLDS: experience needed for level 1, 2, ...
    Rules              \* EXPERIENCE_RULES: type -> [delta, dailyCap, counter]

ASSUME RulesAssumption ==
    /\ LevelThresholds \in Seq(Nat)
    /\ Len(LevelThresholds) > 0
    /\ LevelThresholds[1] = 0
    /\ \A i, j \in DOMAIN LevelThresholds : i < j => LevelThresholds[i] < LevelThresholds[j]
    /\ \A t \in DOMAIN Rules : Rules[t].delta \in Nat \ {0} /\ Rules[t].dailyCap \in Nat \ {0}
    /\ \A s, t \in DOMAIN Rules :
         Rules[s].counter = Rules[t].counter => Rules[s].dailyCap = Rules[t].dailyCap

Levels == DOMAIN LevelThresholds

(* The thresholds are scanned from the highest down; the first one reached *)
(* gives the level.                                                        *)
levelForExperience(x) ==
    IF \E i \in Levels : x >= LevelThresholds[i]
    THEN CHOOSE i \in Levels :
           x >= LevelThresholds[i] /\ \A j \in Levels : j > i => ~(x >= LevelThresholds[j])
    ELSE 1

(* What a profile shows: where the current level starts and the next one   *)
(* begins, -1 standing for the null of the last level.                     *)
progressionFor(x) ==
    LET level == levelForExperience(x)
    IN  [level |-> level,
         experience |-> x,
         currentLevelExperience |-> LevelThresholds[level],
         nextLevelExperience |-> IF level + 1 \in Levels THEN LevelThresholds[level + 1] ELSE -1]

-------------------------------------------------------------------------------
(* A grant asks for an experience of some type, for a user, on a day, under *)
(* an idempotency key.                                                      *)
GrantInput(u, type, key, day) == [user |-> u, type |-> type, key |-> key, day |-> day]

Put(f, k, v) == [x \in DOMAIN f \cup {k} |-> IF x = k THEN v ELSE f[x]]

Counted(p, day, counter) ==
    IF <<day, counter>> \in DOMAIN p.counts THEN p.counts[<<day, counter>>] ELSE 0

(* Mutant of Grantable: the idempotency key is not looked up. *)
GrantableAgain(p, g) == Counted(p, g.day, Rules[g.type].counter) < Rules[g.type].dailyCap

(* The early returns of grantInTransaction: the key is known, or the day's *)
(* counter is at its cap.                                                  *)
Grantable(p, g) ==
    /\ g.key \notin DOMAIN p.granted
    /\ Counted(p, g.day, Rules[g.type].counter) < Rules[g.type].dailyCap

(* What an accepted grant does to the locked user. *)
Awarded(p, g) ==
    LET rule == Rules[g.type]
        experience == p.experience + rule.delta
        level == levelForExperience(experience)
    IN  [experience |-> experience,
         level |-> level,
         granted |-> Put(p.granted, g.key,
                         [type |-> g.type, day |-> g.day, delta |-> rule.delta, reversed |-> FALSE]),
         counts |-> Put(p.counts, <<g.day, rule.counter>>, Counted(p, g.day, rule.counter) + 1),
         announced |-> IF level > p.level
                       THEN p.announced \cup {<<g.key, level>>} ELSE p.announced]

grantInTransaction(p, g) == IF Grantable(p, g) THEN Awarded(p, g) ELSE p

(* A user who has just registered. *)
NewProgress ==
    [experience |-> 0, level |-> 1, granted |-> <<>>, counts |-> <<>>, announced |-> {}]
===============================================================================
