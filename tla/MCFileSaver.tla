------------------------------ MODULE MCFileSaver ------------------------------
\* One browser of each kind: with the download attribute, with msSaveOrOpenBlob,
\* and with neither (with and without a popup blocker, a reader, Safari or not).
EXTENDS FileSaver

Old(blocker, safari, chromeIOS, reader) ==
    [download |-> FALSE, ms |-> FALSE, blocker |-> blocker, safari |-> safari,
     chromeIOS |-> chromeIOS, reader |-> reader]

Plain == Old(TRUE, FALSE, FALSE, "function")

OldBrowsers == {Old(blocker, safari, chromeIOS, "object") :
                    blocker \in BOOLEAN, safari \in BOOLEAN, chromeIOS \in BOOLEAN} \cup {Plain}

AllBrowsers == OldBrowsers \cup {[Plain EXCEPT !.download = TRUE], [Plain EXCEPT !.ms = TRUE]}
===============================================================================
