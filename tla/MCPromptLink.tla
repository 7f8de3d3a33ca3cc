---------------------------- MODULE MCPromptLink ----------------------------
EXTENDS PromptLink
=============================================================================
