----------------------- MODULE MCGenerationController -----------------------
EXTENDS GenerationController
============================================================================
