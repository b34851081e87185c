---------------------------- MODULE MCAttachments ----------------------------
(* Constants for model-checking Attachments on small instances.            *)
EXTENDS Attachments

Part(given)  == [given |-> given, content |-> "bytes"]
Odd(content) == [given |-> << >>, content |-> content]

APdf == Plain("a", "pdf")

\* "a.pdf", "a-2.pdf", "sub/a.pdf", "attachment-2", a part without a name,
\* "thumbnails", "..", and the two kinds of content that cannot be written.
OddAndColliding ==
  {Part(<<APdf>>), Part(<<Numbered(APdf, 2)>>),
   Part(<<Plain("sub", Nothing), APdf>>),
   Part(<<Numbered(Plain("attachment", Nothing), 2)>>), Part(<< >>),
   Part(<<Thumbnails>>), Part(<<DotDot>>),
   Odd("message"), Odd("multipart")}
=============================================================================
