------------------------------- MODULE MCLibrary -------------------------------
(* ann's thread with bob, a player, and cat, who takes part; two slots for  *)
(* drafts; two stickers at the most; two images that become the same one.  *)
EXTENDS Library

MCUsers == {"ann", "bob", "cat"}
MCThreads == {"t"}
MCTags == {"x", "y"}
MCMedia == {"m1", "m2", "m3"}
MCAssets == {"a", "b"}
MCAssetOf(m) == IF m = "m3" THEN "b" ELSE "a"
MCFolders == {"home", "own"}
MCWorkers == {"w1", "w2"}

MCThread == [t \in MCThreads |-> [owner |-> "ann", published |-> TRUE, live |-> TRUE, private |-> FALSE]]
MCRole == [t \in MCThreads |-> [u \in MCUsers |-> IF u = "ann" THEN "OWNER" ELSE "PARTICIPANT"]]

Plain(requests) ==
    [thread |-> MCThread, role |-> MCRole, player |-> [t \in MCThreads |-> {"ann", "bob"}], tagged |-> {<<"t", "x">>},
     drafts |-> <<>>, favorites |-> <<>>, media |-> {}, workers |-> {}, requests |-> requests, faults |-> 0]

Ask(id, op, user, what) ==
    [id |-> id, op |-> op, user |-> user, thread |-> "t", target |-> Nobody, n |-> 0, versioned |-> FALSE,
     version |-> 0, key |-> "", what |-> what, order |-> <<>>, tags |-> {}, by |-> {}]
At_(id, op, user, target) == [Ask(id, op, user, "") EXCEPT !.target = target]
Keyed_(id, op, what, key) == [Ask(id, op, "bob", what) EXCEPT !.key = key]
Slot(id, op, n, what, key) == [Keyed_(id, op, what, key) EXCEPT !.n = n]
Seen_(id, op, n, what, version) == [Slot(id, op, n, what, "") EXCEPT !.versioned = TRUE, !.version = version]

Written(slot, text) ==
    [live |-> TRUE, slot |-> slot, version |-> 1, text |-> text, key |-> text, hash |-> <<text, slot>>]

(* Two devices at the drafts of one member. *)
Devices == [Plain(
    {Seen_(1, "save", 1, "new", 1), Seen_(2, "edit", 1, "other", 1), Seen_(3, "edit", 1, "third", 2),
     Seen_(4, "removeDraft", 1, "", 2), Slot(5, "save", 1, "new", "key"), Slot(6, "removeDraft", 1, "", "")})
    EXCEPT !.drafts = <<Written(1, "old")>>]

(* Requests that come twice, with a slot and without; one asks for something else. *)
Twice == Plain(
    {Slot(1, "save", 2, "new", "key"), Slot(2, "save", 2, "new", "key"), Slot(3, "save", 2, "other", "key"),
     Slot(4, "save", 0, "new", "key2"), Slot(5, "removeDraft", 1, "", "")})
Thrice == Plain(
    {Slot(1, "save", 0, "new", "key"), Slot(2, "save", 0, "new", "key"), Slot(3, "save", 0, "new", "key"),
     Slot(4, "removeDraft", 1, "", ""), Slot(5, "removeDraft", 2, "", "")})
LastSlot == [Plain(
    {Slot(1, "save", 0, "new", "key"), Slot(2, "save", 0, "new", "key"), Slot(3, "save", 0, "new", ""),
     Seen_(4, "removeDraft", 1, "", 1)}) EXCEPT !.drafts = <<Written(1, "old")>>]

Shelving == Plain(
    {Ask(1, "bookmark", "bob", ""), Ask(2, "bookmark", "bob", "own"), Ask(3, "folder", "bob", "own"),
     Ask(4, "move", "bob", "own"), Ask(5, "unbookmark", "bob", ""), Ask(6, "close", "ann", ""),
     At_(7, "block", "ann", "bob")})

(* A stranger reads, and the thread is closed to strangers. *)
Strangers == [Plain(
    {Ask(1, "bookmark", "cat", ""), At_(2, "subscribe", "cat", Nobody), Ask(3, "close", "ann", ""),
     Ask(4, "like", "cat", ""), Ask(5, "withdraw", "ann", ""), At_(6, "block", "cat", "ann")})
    EXCEPT !.role["t"]["cat"] = "NONE"]

Following_ == Plain(
    {At_(1, "subscribe", "cat", "bob"), At_(2, "subscribe", "bob", Nobody), At_(3, "promote", "ann", "bob"),
     At_(4, "unmark", "ann", "bob"), Ask(5, "exit", "bob", ""), At_(6, "unsubscribe", "cat", "bob"),
     At_(7, "block", "bob", "cat")})

Liking == Plain(
    {Ask(1, "like", "bob", ""), Ask(2, "like", "bob", ""), Ask(3, "unlike", "bob", ""), Ask(4, "like", "cat", ""),
     At_(5, "block", "ann", "cat"), Ask(6, "unlike", "cat", ""), At_(7, "unblock", "ann", "cat")})

Tagging == Plain(
    {Ask(1, "searchTags", "bob", ""), Ask(2, "searchTags", "cat", ""), Keyed_(3, "updateTag", "z", "x"),
     Ask(4, "addTag", "ann", "y"), Ask(5, "removeTag", "ann", "x")})
Naming == Plain(
    {Ask(1, "searchTags", "bob", ""), Ask(2, "createTag", "ann", "y"), Ask(3, "createTag", "cat", "y"),
     Keyed_(4, "updateTag", "y", "x"), Ask(5, "addTag", "ann", "x")})

(* The limit is reached while the same import is asked for twice. *)
Collecting == [Plain(
    {Keyed_(1, "import", "m1", "key"), Keyed_(2, "import", "m1", "key"), Keyed_(3, "import", "m3", "other")})
    EXCEPT !.favorites = [a \in {"b"} |-> 0], !.media = {"m1", "m3"}, !.workers = {"w1"}]

Adopting == [Plain(
    {Keyed_(1, "import", "m1", "key"), Keyed_(2, "adopt", "a", "other"), Keyed_(3, "adopt", "a", "other")})
    EXCEPT !.favorites = [a \in {"b"} |-> 0], !.media = {"m1"}, !.workers = {"w1"}]

Ordering == [Plain(
    {Keyed_(1, "importPostImage", "m1", "key"), Keyed_(2, "adopt", "a", "key"), Ask(3, "close", "ann", ""),
     [Ask(4, "reorder", "bob", "") EXCEPT !.version = 2, !.order = <<"b", "a">>],
     Ask(5, "removeSticker", "bob", "b")})
    EXCEPT !.favorites = [a \in {"b"} |-> 0], !.media = {"m1"}, !.workers = {"w1"}]

Losing == [Plain({Keyed_(1, "import", "m1", "key")})
    EXCEPT !.faults = 3, !.media = {"m1"}, !.workers = {"w1", "w2"}]

(* Two images that become the same sticker. *)
Same == [Plain({Keyed_(1, "import", "m1", "key"), Keyed_(2, "import", "m2", "other")})
    EXCEPT !.media = {"m1", "m2"}, !.workers = {"w1", "w2"}]

(* An image in a moment, whose author blocks whoever saves it. *)
Copying == [Plain(
    {[Keyed_(1, "importMomentImage", "m1", "key") EXCEPT !.by = {"cat"}], Keyed_(2, "importDirectMessage", "m1", "other"),
     At_(3, "block", "cat", "bob")})
    EXCEPT !.media = {"m1"}, !.workers = {"w1"}]

(* Threads that are begun twice, and once more than there may be. *)
Begin(id, what, key, tags) == [Keyed_(id, "createThread", what, key) EXCEPT !.tags = tags]
Beginning == Plain(
    {Begin(1, "new", "key", {"y"}), Begin(2, "new", "key", {"y"}), Begin(3, "new", "key", {"x"}),
     Slot(4, "publishThread", 1, "", ""), Ask(5, "searchTags", "cat", "")})
Overflowing == Plain(
    {Begin(1, "new", "key", {}), Begin(2, "new", "key", {}), Begin(3, "new", "key2", {"x"}), Begin(4, "new", "", {}),
     Slot(5, "removeThread", 1, "", ""), Slot(6, "publishThread", 2, "", "")})

MCPlots ==
    {Devices, Twice, Thrice, LastSlot, Shelving, Strangers, Following_, Liking, Tagging, Naming, Collecting,
     Adopting, Ordering, Losing, Same, Copying, Beginning, Overflowing}
===============================================================================
