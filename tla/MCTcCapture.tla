---------------------------- MODULE MCTcCapture ----------------------------
\* TcCapture by itself, with two connections, two processes and a target.
EXTENDS TcCapture

CONSTANTS web, webAnswer, mail, mailAnswer

MCLocal == {web, mail}
MCReverse ==
    [f \in {web, webAnswer, mail, mailAnswer} |->
        CASE f = web -> webAnswer [] f = webAnswer -> web
          [] f = mail -> mailAnswer [] f = mailAnswer -> mail]
=============================================================================
