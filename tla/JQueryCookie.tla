----------------------------- MODULE JQueryCookie -----------------------------
(***************************************************************************)
(* $.cookie of jquery.cookie.js over the cookies of a browser.  A cookie   *)
(* is known by its name and its path; pages of several directories of the  *)
(* site share the browser's cookies.  What names and values look like as   *)
(* text is CookieText's subject.                                           *)
(***************************************************************************)
EXTENDS Integers

CONSTANTS Names,      \* names of cookies
          Values,     \* what they stand for
          Dirs,       \* directories of pages
          Root,       \* the path /
          Undefined,
          Day         \* days: 864e+5 milliseconds, in steps of the clock

Paths == Dirs \cup {Root}

\* A cookie without expires lasts as long as the browser session.
Cookie == [value : Values \cup {Undefined}, session : BOOLEAN, until : Nat]
NoCookie == [value |-> Undefined, session |-> FALSE, until |-> 0]

Alive(c, time) == c.value # Undefined /\ (c.session \/ time < c.until)

\* options: the number of days or Undefined, the path or Undefined; without a
\* path the browser takes the directory of the page.
PathOf(options, dir) == IF options.path = Undefined THEN dir ELSE options.path

\* Mutated form: the days are taken off the date.
write_past(jar, time, dir, key, value, options) ==
    [jar EXCEPT ![<<key, PathOf(options, dir)>>] =
        [value |-> value,
         session |-> options.expires = Undefined,
         until |-> IF options.expires = Undefined THEN 0 ELSE time - options.expires * Day]]

\* $.cookie(key, value, options) called at that time by a page of that directory.
write(jar, time, dir, key, value, options) ==
    [jar EXCEPT ![<<key, PathOf(options, dir)>>] =
        [value |-> value,
         session |-> options.expires = Undefined,
         until |-> IF options.expires = Undefined THEN 0 ELSE time + options.expires * Day]]

\* What document.cookie shows of it.
ValueAt(c, time) == IF Alive(c, time) THEN c.value ELSE Undefined

\* Mutated form: the loop goes on after a match, so that the last one counts.
cookie_last(jar, time, dir, key) ==
    IF ValueAt(jar[<<key, Root>>], time) # Undefined
    THEN ValueAt(jar[<<key, Root>>], time)
    ELSE ValueAt(jar[<<key, dir>>], time)

\* $.cookie(key): the first match in document.cookie, where the browser puts
\* longer paths first.
cookie(jar, time, dir, key) ==
    IF ValueAt(jar[<<key, dir>>], time) # Undefined
    THEN ValueAt(jar[<<key, dir>>], time)
    ELSE ValueAt(jar[<<key, Root>>], time)
===============================================================================
